---- MODULE Spec2Model ----
(***************************************************************************)
(* Model of the Supply_Chain_Optimization data scripts.                    *)
(*                                                                         *)
(*  - add_lpi_features_csv.py : load_lpi_data / enrich_dataset, the LPI    *)
(*    join that validates the joined rows, writes a backup of the raw      *)
(*    dataset and then overwrites the raw dataset in place.                *)
(*  - data_cleaning_new.py : the feature pipeline (date conversion,        *)
(*    transit and risk features, encoding, scaling, pruning, split, save). *)
(*    Its encoder and its scaler are also run on single columns, the       *)
(*    encoder in two separate runs of the script.                          *)
(*  - worldbank_scraper_simple.py, port_efficiency_scraper.py and          *)
(*    worldbank_customs_scraper.py : the page loop that fetches one        *)
(*    indicator from the World Bank API, and _latest_by_country;           *)
(*    fetch_lpi_data_simple, which combines the six LPI indicators into    *)
(*    the lookup file.                                                     *)
(*                                                                         *)
(* Numbers with a fractional part are kept in fixed point: LPI values in   *)
(* hundredths, scores and risk indices in thousandths.  CSV cells are      *)
(* strings; float() and str() are modelled as conversions between the      *)
(* two.  The averages and differences of enrich_dataset are binary64       *)
(* results: they carry the rounding remainder their repr shows.            *)
(***************************************************************************)
EXTENDS Integers, Sequences, FiniteSets, TLC

VARIABLES
    lpi_file,       \* data/external/raw/worldbank_lpi_simple.csv
    raw_file,       \* data/raw/trade_customs_dataset.csv
    backup_file,    \* data/raw/trade_customs_dataset_backup.csv
    pc,             \* position of enrich_dataset
    lpi_data,       \* enrich_dataset: lpi_data
    rows,           \* enrich_dataset: rows
    fieldnames,     \* enrich_dataset: fieldnames
    missing_count,  \* enrich_dataset: missing_count
    written,        \* number of rows writer.writerows has put in raw_file
    error,          \* the exception that ended the run, "" if none
    runs,           \* number of runs of enrich_dataset started so far
    pre_raw,        \* history: raw_file when the current run started
    pre_backup,     \* history: backup_file when the current run started
    original,       \* history: raw_file before enrich_dataset ever ran
    completed,      \* history: number of runs of enrich_dataset that returned
    input_csv,      \* data_cleaning_new.py: the file at RAW_PATH
    ppc,            \* position of the feature pipeline
    df,             \* data_cleaning_new.py: df
    delay_tfidf,    \* data_cleaning_new.py: delay_tfidf (its shape)
    X,              \* data_cleaning_new.py: X
    regression_df,      \* data_cleaning_new.py: regression_df
    classification_df,  \* data_cleaning_new.py: classification_df
    regression_file,    \* processed/new_customs_regression_dataset.csv
    classification_file,\* processed/new_customs_classification_dataset.csv
    metadata_file,      \* processed/new_feature_metadata.json
    perror,         \* the exception that ended the pipeline, "" if none
    col_kind,       \* the column under the encoder ("categorical") or the scaler ("numeric")
    run_input,      \* the column's values in the input file of each run of the script
    run_output,     \* the column after the stage in each run, <<>> before it
    scraper,        \* the script whose fetch loop runs: "simple", "port" or "customs"
    page,           \* the loop's page
    results,        \* the loop's results
    requests,       \* history: the page numbers requested, in order
    responses,      \* history: what each request came back with
    fpc,            \* position of the fetch: "loop", "returned", "raised", "collapsed"
    ferror,         \* the exception that left the fetch function, "" if none
    latest,         \* worldbank_scraper_simple: latest of fetch_lpi_data_simple
    indicator,      \* fetch_lpi_data_simple: position of the loop in LPI_INDICATORS
    combined,       \* fetch_lpi_data_simple: combined
    latests,        \* history: latest of each indicator combined so far
    out_file        \* the file at out_path of fetch_lpi_data_simple

enrich_vars == <<lpi_file, raw_file, backup_file, pc, lpi_data, rows, fieldnames,
                 missing_count, written, error, runs, pre_raw, pre_backup,
                 original, completed>>

pipe_vars == <<input_csv, ppc, df, delay_tfidf, X, regression_df, classification_df,
               regression_file, classification_file, metadata_file, perror>>

column_vars == <<col_kind, run_input, run_output>>

fetch_vars == <<scraper, page, results, requests, responses, fpc, ferror, latest,
                indicator, combined, latests, out_file>>

vars == <<enrich_vars, pipe_vars, column_vars, fetch_vars>>

\* ------------------------------------------------------------------ bounds

\* largest number of cells of a column given to the encoder or the scaler alone
MaxColumnLen == 4

\* largest number of pages a fetch loop requests
MaxPages == 3

\* largest number of shipment rows in the raw dataset
MaxRows == 2

\* largest number of runs of enrich_dataset on the same files
MaxRuns == 2

\* largest number of rows of the table the feature pipeline loads
MaxTableRows == 1

\* largest Prior_Offense_Count of an input row
MaxOffense == 2

\* ------------------------------------------------------------- conversions

Digit(d) ==
    CASE d = 0 -> "0" [] d = 1 -> "1" [] d = 2 -> "2" [] d = 3 -> "3" [] d = 4 -> "4"
      [] d = 5 -> "5" [] d = 6 -> "6" [] d = 7 -> "7" [] d = 8 -> "8" [] d = 9 -> "9"

RECURSIVE IntStr(_)
\* str() of a non-negative integer
IntStr(n) == IF n < 10 THEN Digit(n) ELSE IntStr(n \div 10) \o Digit(n % 10)

Abs(n) == IF n < 0 THEN -n ELSE n

\* str() of a float given in hundredths: 340 -> "3.4", 355 -> "3.55", 300 -> "3.0"
FloatStr(h) ==
    LET a == Abs(h)
        frac == a % 100
    IN  (IF h < 0 THEN "-" ELSE "") \o IntStr(a \div 100) \o "." \o
        (IF frac % 10 = 0 THEN Digit(frac \div 10)
                          ELSE Digit(frac \div 10) \o Digit(frac % 10))

RECURSIVE DigitsOf(_, _)
\* the decimal digits of a non-negative integer, padded with zeros to a width
DigitsOf(n, width) ==
    IF width = 0 THEN <<>> ELSE Append(DigitsOf(n \div 10, width - 1), n % 10)

RECURSIVE StripZeros(_)
\* the digits without their trailing zeros
StripZeros(ds) ==
    IF ds # <<>> /\ ds[Len(ds)] = 0 THEN StripZeros(SubSeq(ds, 1, Len(ds) - 1)) ELSE ds

RECURSIVE DigitText(_)
DigitText(ds) == IF ds = <<>> THEN "" ELSE Digit(Head(ds)) \o DigitText(Tail(ds))

\* str() of a float that float arithmetic produced.  Such a float x is kept as
\* the decimal number its repr shows: x[1] hundredths plus x[2] units of
\* 10^-17, so <<340, 40>> is 3.4000000000000004 and <<360, -40>> is
\* 3.5999999999999996.  The text has the integer part, the point, and the 17
\* decimals without their trailing zeros (one decimal at least).
FloatRepr(x) ==
    LET negative == x[1] < 0 \/ (x[1] = 0 /\ x[2] < 0)
        h == Abs(x[1])
        e == IF negative THEN -x[2] ELSE x[2]
        H == IF e < 0 THEN h - 1 ELSE h
        tail == IF e >= 0 THEN DigitsOf(e, 15)
                ELSE <<9, 9, 9, 9, 9, 9, 9, 9, 9>> \o DigitsOf(1000000 + e, 6)
        decimals == StripZeros(DigitsOf(H % 100, 2) \o tail)
    IN  (IF negative THEN "-" ELSE "") \o IntStr(H \div 100) \o "." \o
        (IF decimals = <<>> THEN "0" ELSE DigitText(decimals))

\* float() of a CSV cell of the lookup file, in hundredths
ParseFloat(s) ==
    CASE s = "3.0" -> 300 [] s = "3.2" -> 320 [] s = "3.4" -> 340 [] s = "3.5" -> 350
      [] s = "3.6" -> 360 [] s = "3.7" -> 370 [] s = "3.9" -> 390 [] s = "4.0" -> 400
      [] s = "4.2" -> 420 [] s = "1.0" -> 100 [] s = "3.1" -> 310 [] s = "3.8" -> 380

\* Python's None and a float value, kept apart from every string
None == <<>>
Some(v) == <<v>>

\* str(x) for x a float, None or the '' default of dict.get
Str(x) == IF x = None THEN "None" ELSE FloatStr(x[1])

\* --------------------------------------------------------- load_lpi_data

LpiKeys == <<"LPI_Overall", "LPI_Customs", "LPI_Infrastructure",
             "LPI_Logistics", "LPI_Tracking", "LPI_Timeliness">>

LpiKeySet == {LpiKeys[i] : i \in 1..Len(LpiKeys)}

TargetCountries == {"Australia", "Brazil", "China", "Germany", "India", "Japan",
                    "South Africa", "United Arab Emirates", "United Kingdom",
                    "United States"}

\* World Bank name -> dataset name
DatasetCountry(country) ==
    CASE country = "United Arab Emirates" -> "UAE"
      [] country = "United Kingdom" -> "UK"
      [] country = "United States" -> "USA"
      [] OTHER -> country

TargetYear == "2022"

\* float(row[k]) if row[k] else None
ParseCell(cell) == IF cell # "" THEN Some(ParseFloat(cell)) ELSE None

RECURSIVE LoadRows(_, _)
\* the loop over the reader: a later row of a country replaces an earlier one
LoadRows(file_rows, acc) ==
    IF file_rows = <<>> THEN acc
    ELSE LET row == Head(file_rows)
             keep == row.year = TargetYear /\ row.country_name \in TargetCountries
             entry == [k \in LpiKeySet |-> ParseCell(row[k])]
             name == DatasetCountry(row.country_name)
             acc2 == IF keep
                     THEN [c \in DOMAIN acc \cup {name} |->
                               IF c = name THEN entry ELSE acc[c]]
                     ELSE acc
         IN  LoadRows(Tail(file_rows), acc2)

EmptyDict == [c \in {} |-> None]

load_lpi_data(file) == LoadRows(file.rows, EmptyDict)

\* -------------------------------------------------------- enrich_dataset

lpi_columns ==
    <<"Origin_LPI_Overall", "Origin_LPI_Customs", "Origin_LPI_Infrastructure",
      "Origin_LPI_Logistics", "Origin_LPI_Tracking", "Origin_LPI_Timeliness",
      "Destination_LPI_Overall", "Destination_LPI_Customs",
      "Destination_LPI_Infrastructure", "Destination_LPI_Logistics",
      "Destination_LPI_Tracking", "Destination_LPI_Timeliness",
      "Route_LPI_Average", "Route_LPI_Difference", "Route_Customs_LPI_Average",
      "Route_Infrastructure_Gap">>

LpiColumnSet == {lpi_columns[i] : i \in 1..Len(lpi_columns)}

\* lpi_data.get(country, {}) followed by .get(key, ''): '' when the country or
\* the key is absent, else the stored float or None
GetOr(data, country, key) ==
    IF country \in DOMAIN data THEN Str(data[country][key]) ELSE ""

\* lpi_data.get(country, {}) followed by .get(key): None when absent
Get(data, country, key) ==
    IF country \in DOMAIN data THEN data[country][key] ELSE None

\* binary64 arithmetic: (a + b) / 2 is the double nearest to the sum of the
\* two doubles, halved.  Its repr differs from the decimal average of the two
\* cells by this many units of 10^-17, for the values float() yields here.
AverageRemainder(a, b) ==
    LET p == IF a <= b THEN <<a, b>> ELSE <<b, a>>
    IN
        CASE p = <<310, 320>> -> 40
          [] p = <<310, 370>> -> 40
          [] p = <<310, 420>> -> 40
          [] p = <<320, 360>> -> 40
          [] p = <<340, 380>> -> -40
          [] p = <<360, 370>> -> 40
          [] p = <<360, 420>> -> 40
          [] p = <<380, 390>> -> -40
          [] OTHER -> 0

\* binary64 arithmetic: the difference of the two doubles is exact, but the
\* doubles are not the decimals of the cells.  The repr of hi - lo differs
\* from the decimal difference by this many units of 10^-17.
DifferenceRemainder(lo, hi) ==
    LET p == <<lo, hi>>
    IN
        CASE p = <<300, 310>> -> 9
          [] p = <<300, 320>> -> 18
          [] p = <<300, 340>> -> -10
          [] p = <<300, 360>> -> 10
          [] p = <<300, 370>> -> 20
          [] p = <<300, 380>> -> -20
          [] p = <<300, 390>> -> -10
          [] p = <<300, 420>> -> 20
          [] p = <<310, 320>> -> 9
          [] p = <<310, 340>> -> -20
          [] p = <<310, 350>> -> -10
          [] p = <<310, 370>> -> 10
          [] p = <<310, 380>> -> -30
          [] p = <<310, 390>> -> -20
          [] p = <<310, 400>> -> -10
          [] p = <<320, 340>> -> -27
          [] p = <<320, 350>> -> -20
          [] p = <<320, 360>> -> -10
          [] p = <<320, 380>> -> -40
          [] p = <<320, 390>> -> -30
          [] p = <<320, 400>> -> -20
          [] p = <<340, 350>> -> 9
          [] p = <<340, 360>> -> 18
          [] p = <<340, 370>> -> 27
          [] p = <<340, 380>> -> -10
          [] p = <<340, 400>> -> 10
          [] p = <<340, 420>> -> 30
          [] p = <<350, 360>> -> 9
          [] p = <<350, 370>> -> 18
          [] p = <<350, 380>> -> -20
          [] p = <<350, 390>> -> -10
          [] p = <<350, 420>> -> 20
          [] p = <<360, 370>> -> 9
          [] p = <<360, 380>> -> -27
          [] p = <<360, 390>> -> -20
          [] p = <<360, 400>> -> -10
          [] p = <<360, 420>> -> 10
          [] p = <<370, 380>> -> -36
          [] p = <<370, 390>> -> -27
          [] p = <<370, 400>> -> -20
          [] p = <<380, 390>> -> 9
          [] p = <<380, 400>> -> 18
          [] p = <<380, 420>> -> 36
          [] p = <<390, 400>> -> 9
          [] p = <<390, 420>> -> 27
          [] p = <<400, 420>> -> 18
          [] OTHER -> 0

\* mutant: the sum of the two values, not halved
Average_Sum(a, b) == <<a + b, 0>>

\* (a + b) / 2 of two floats given in hundredths, as a float
Average(a, b) == <<(a + b) \div 2, AverageRemainder(a, b)>>

\* a - b of two floats given in hundredths, as a float
Difference(a, b) ==
    <<a - b, IF a >= b THEN DifferenceRemainder(b, a) ELSE -DifferenceRemainder(a, b)>>

\* the value enrich_dataset assigns to row[col]
LpiCell(data, origin, dest, col) ==
    LET origin_overall == Get(data, origin, "LPI_Overall")
        dest_overall   == Get(data, dest, "LPI_Overall")
        origin_customs == Get(data, origin, "LPI_Customs")
        dest_customs   == Get(data, dest, "LPI_Customs")
        origin_infra   == Get(data, origin, "LPI_Infrastructure")
        dest_infra     == Get(data, dest, "LPI_Infrastructure")
    IN  CASE col = "Origin_LPI_Overall" -> GetOr(data, origin, "LPI_Overall")
          [] col = "Origin_LPI_Customs" -> GetOr(data, origin, "LPI_Customs")
          [] col = "Origin_LPI_Infrastructure" -> GetOr(data, origin, "LPI_Infrastructure")
          [] col = "Origin_LPI_Logistics" -> GetOr(data, origin, "LPI_Logistics")
          [] col = "Origin_LPI_Tracking" -> GetOr(data, origin, "LPI_Tracking")
          [] col = "Origin_LPI_Timeliness" -> GetOr(data, origin, "LPI_Timeliness")
          [] col = "Destination_LPI_Overall" -> GetOr(data, dest, "LPI_Overall")
          [] col = "Destination_LPI_Customs" -> GetOr(data, dest, "LPI_Customs")
          [] col = "Destination_LPI_Infrastructure" -> GetOr(data, dest, "LPI_Infrastructure")
          [] col = "Destination_LPI_Logistics" -> GetOr(data, dest, "LPI_Logistics")
          [] col = "Destination_LPI_Tracking" -> GetOr(data, dest, "LPI_Tracking")
          [] col = "Destination_LPI_Timeliness" -> GetOr(data, dest, "LPI_Timeliness")
          [] col = "Route_LPI_Average" ->
                IF origin_overall # None /\ dest_overall # None
                THEN FloatRepr(Average(origin_overall[1], dest_overall[1])) ELSE ""
          [] col = "Route_LPI_Difference" ->
                IF origin_overall # None /\ dest_overall # None
                THEN FloatRepr(Difference(dest_overall[1], origin_overall[1])) ELSE ""
          [] col = "Route_Customs_LPI_Average" ->
                IF origin_customs # None /\ dest_customs # None
                THEN FloatRepr(Average(origin_customs[1], dest_customs[1])) ELSE ""
          [] col = "Route_Infrastructure_Gap" ->
                IF origin_infra # None /\ dest_infra # None
                THEN FloatRepr(Difference(dest_infra[1], origin_infra[1])) ELSE ""

\* one pass of the reader loop: the row with its 16 LPI cells assigned
EnrichRow(data, row) ==
    [c \in DOMAIN row \cup LpiColumnSet |->
        IF c \in LpiColumnSet
        THEN LpiCell(data, row["Origin_Country"], row["Destination_Country"], c)
        ELSE row[c]]

EnrichRows(data, file_rows) ==
    [i \in 1..Len(file_rows) |-> EnrichRow(data, file_rows[i])]

\* not row.get(col) or row[col] == ''
CellMissing(row, col) == row[col] = ""

\* mutant: only the origin columns are validated
RowMissing_OriginOnly(row) == \E i \in 1..6 : CellMissing(row, lpi_columns[i])

\* the inner loop with its break: does the row have a missing LPI cell
RowMissing(row) == \E i \in 1..Len(lpi_columns) : CellMissing(row, lpi_columns[i])

\* mutant: the inner loop without its break, every missing cell counted
CountMissing_NoBreak(rs) ==
    Cardinality({p \in (1..Len(rs)) \X (1..Len(lpi_columns)) :
                    CellMissing(rs[p[1]], lpi_columns[p[2]])})

\* missing_count after the validation loop
CountMissing(rs) == Cardinality({i \in 1..Len(rs) : RowMissing(rs[i])})

\* ------------------------------------------------------------------ files

\* a CSV file: whether it exists, its header line and its data rows
NoFile == [exists |-> FALSE, header |-> <<>>, rows |-> <<>>]

\* open(path, 'w'): the file exists and is empty
Truncated == [exists |-> TRUE, header |-> <<>>, rows |-> <<>>]

\* the text cells of the lookup row of a target country
LpiText(country, key) ==
    IF country = "India"
    THEN CASE key = "LPI_Overall" -> "3.4" [] key = "LPI_Customs" -> "3.0"
           [] key = "LPI_Infrastructure" -> "3.2" [] key = "LPI_Logistics" -> "3.5"
           [] key = "LPI_Tracking" -> "3.4" [] key = "LPI_Timeliness" -> "3.6"
    ELSE CASE key = "LPI_Overall" -> "3.7" [] key = "LPI_Customs" -> "3.5"
           [] key = "LPI_Infrastructure" -> "3.7" [] key = "LPI_Logistics" -> "3.9"
           [] key = "LPI_Tracking" -> "4.0" [] key = "LPI_Timeliness" -> "4.2"

\* a row of the lookup file; blank is the set of sub-indices left empty
LpiRow(country, year, blank) ==
    [c \in {"country_name", "year"} \cup LpiKeySet |->
        IF c = "country_name" THEN country
        ELSE IF c = "year" THEN year
        ELSE IF c \in blank THEN "" ELSE LpiText(country, c)]

\* the rows a lookup file may hold for one country: none, a complete 2022 row,
\* a 2022 row with one sub-index blank, or a row of another year
LpiRowChoices(country) ==
    {<<>>, <<LpiRow(country, "2022", {})>>, <<LpiRow(country, "2018", {})>>}
    \cup {<<LpiRow(country, "2022", {k})>> : k \in LpiKeySet}

LpiFiles ==
    {NoFile} \cup
    {[exists |-> TRUE,
      header |-> <<"country_name", "year">> \o LpiKeys,
      rows |-> a \o b \o c] :
        a \in LpiRowChoices("India"),
        b \in {<<>>, <<LpiRow("United Kingdom", "2022", {})>>},
        c \in {<<>>, <<LpiRow("France", "2022", {})>>}}

\* the country names the shipment rows use
DatasetCountries == {"India", "UK", "France"}

RawHeader == <<"Shipment_ID", "Origin_Country", "Destination_Country">>

RawRow(i, origin, dest) ==
    [c \in {"Shipment_ID", "Origin_Country", "Destination_Country"} |->
        IF c = "Shipment_ID" THEN "S" \o IntStr(i)
        ELSE IF c = "Origin_Country" THEN origin ELSE dest]

RawFiles ==
    {NoFile} \cup
    {[exists |-> TRUE, header |-> RawHeader,
      rows |-> [i \in DOMAIN od |-> RawRow(i, od[i][1], od[i][2])]] :
        od \in UNION {[1..m -> DatasetCountries \X DatasetCountries] : m \in 1..MaxRows}}

\* ------------------------------------------------------------------ tables

\* a DataFrame: its column labels in order and its rows (column -> value)
EmptyTable == [columns |-> <<>>, rows |-> <<>>]

Range(seq) == {seq[i] : i \in 1..Len(seq)}

ColumnSet(t) == Range(t.columns)

\* df[name] = values: a new column goes last, an existing one keeps its place
WithColumn(t, name, values) ==
    [columns |-> IF name \in Range(t.columns) THEN t.columns ELSE Append(t.columns, name),
     rows |-> [i \in 1..Len(t.rows) |->
                  [c \in DOMAIN t.rows[i] \cup {name} |->
                      IF c = name THEN values[i] ELSE t.rows[i][c]]]]

\* df[name]
Column(t, name) == [i \in 1..Len(t.rows) |-> t.rows[i][name]]

\* df.drop(columns=names, errors='ignore')
DropColumns(t, names) ==
    [columns |-> SelectSeq(t.columns, LAMBDA c : c \notin names),
     rows |-> [i \in 1..Len(t.rows) |->
                  [c \in DOMAIN t.rows[i] \ names |-> t.rows[i][c]]]]

\* ------------------------------------------------------- 2. date conversions

date_cols == <<"Shipment_Date", "Estimated_Arrival_Date", "Actual_Arrival_Date">>

\* days from 1970-01-01 to the civil date y-m-d (proleptic Gregorian)
DaysFromCivil(y, m, d) ==
    LET yy  == IF m <= 2 THEN y - 1 ELSE y
        era == yy \div 400
        yoe == yy - era * 400
        mp  == IF m > 2 THEN m - 3 ELSE m + 9
        doy == (153 * mp + 2) \div 5 + d - 1
        doe == yoe * 365 + yoe \div 4 - yoe \div 100 + doy
    IN  era * 146097 + doe - 719468

\* the missing value of a datetime cell, pandas' least int64; the model keeps
\* it as its own least timestamp
NaT == -2147483647

\* the missing value of a numeric cell
np_nan == NaT

\* the number of days of month m of year y
DaysInMonth(y, m) ==
    IF m = 2 THEN (IF y % 4 = 0 /\ (y % 100 # 0 \/ y % 400 = 0) THEN 29 ELSE 28)
    ELSE IF m \in {4, 6, 9, 11} THEN 30 ELSE 31

\* a date cell <<year, month, day>> names a day of the calendar; the empty
\* cell <<>> is read by pd.read_csv as a missing value
Parseable(cell) ==
    \/ cell = <<>>
    \/ /\ Len(cell) = 3
       /\ cell[2] \in 1..12
       /\ cell[3] \in 1..DaysInMonth(cell[1], cell[2])

\* pd.to_datetime of a date cell <<year, month, day>>: a timestamp at
\* midnight, in seconds since the epoch; NaT for a missing cell
to_datetime(cell) ==
    IF cell = <<>> THEN NaT ELSE DaysFromCivil(cell[1], cell[2], cell[3]) * 86400

\* (a - b).dt.days: the days component of a Timedelta, rounded down; missing
\* when either timestamp is NaT
dt_days(a, b) == IF a = NaT \/ b = NaT THEN np_nan ELSE (a - b) \div 86400

\* Timestamp.month
dt_month(ts) ==
    LET z   == ts \div 86400 + 719468
        era == z \div 146097
        doe == z - era * 146097
        yoe == (doe - doe \div 1460 + doe \div 36524 - doe \div 146096) \div 365
        doy == doe - (365 * yoe + yoe \div 4 - yoe \div 100)
        mp  == (5 * doy + 2) \div 153
    IN  IF ts = NaT THEN np_nan ELSE IF mp < 10 THEN mp + 3 ELSE mp - 9

\* Timestamp.weekday, Monday = 0 (1970-01-01 was a Thursday)
dt_weekday(ts) == IF ts = NaT THEN np_nan ELSE (ts \div 86400 + 3) % 7

\* the exception of the loop over date_cols, "" when it raises none: the
\* first column that is absent (KeyError) or holds a cell that names no
\* calendar day (ValueError)
DateError(t) ==
    LET absent(i) == date_cols[i] \notin ColumnSet(t)
        bad(i) == absent(i) \/ \E r \in 1..Len(t.rows) : ~Parseable(t.rows[r][date_cols[i]])
        failing == {i \in 1..Len(date_cols) : bad(i)}
        first == CHOOSE i \in failing : \A j \in failing : i <= j
    IN  IF failing = {} THEN ""
        ELSE IF absent(first) THEN "KeyError" ELSE "ValueError"

\* for col in date_cols: df[col] = pd.to_datetime(df[col]).  The loop ends at
\* the first column that raises, the columns before it converted and that
\* column and the ones after it as they were
DateConversions(t) ==
    LET converts(i) == /\ date_cols[i] \in ColumnSet(t)
                       /\ \A r \in 1..Len(t.rows) : Parseable(t.rows[r][date_cols[i]])
        conv(u, col) == WithColumn(u, col, [i \in 1..Len(u.rows) |-> to_datetime(u.rows[i][col])])
        t1 == IF converts(1) THEN conv(t, date_cols[1]) ELSE t
        t2 == IF converts(1) /\ converts(2) THEN conv(t1, date_cols[2]) ELSE t1
    IN  IF converts(1) /\ converts(2) /\ converts(3) THEN conv(t2, date_cols[3]) ELSE t2

\* ------------------------------------------- 3. transit & calendar features

\* mutant: the planned transit measured to the actual arrival
Planned_Transit_Days_ToActual(row) == dt_days(row["Actual_Arrival_Date"], row["Shipment_Date"])

Planned_Transit_Days(row) == dt_days(row["Estimated_Arrival_Date"], row["Shipment_Date"])

Actual_Transit_Days(row) == dt_days(row["Actual_Arrival_Date"], row["Shipment_Date"])

Arrival_Delay_Days(row) == dt_days(row["Actual_Arrival_Date"], row["Estimated_Arrival_Date"])

\* the five assignments of section 3 in order, ended by the first that
\* reads an absent column
TransitFeatures(t) ==
    LET n  == Len(t.rows)
        has(cols) == cols \subseteq ColumnSet(t)
        ok1 == has({"Estimated_Arrival_Date", "Shipment_Date"})
        ok2 == ok1 /\ has({"Actual_Arrival_Date", "Shipment_Date"})
        ok3 == ok2 /\ has({"Actual_Arrival_Date", "Estimated_Arrival_Date"})
        t1 == IF ok1 THEN WithColumn(t, "Planned_Transit_Days",
                              [i \in 1..n |-> Planned_Transit_Days(t.rows[i])])
              ELSE t
        t2 == IF ok2 THEN WithColumn(t1, "Actual_Transit_Days",
                              [i \in 1..n |-> Actual_Transit_Days(t.rows[i])])
              ELSE t1
        t3 == IF ok3 THEN WithColumn(t2, "Arrival_Delay_Days",
                              [i \in 1..n |-> Arrival_Delay_Days(t.rows[i])])
              ELSE t2
        t4 == IF ok3 THEN WithColumn(t3, "Shipment_Month",
                              [i \in 1..n |-> dt_month(t.rows[i]["Shipment_Date"])])
              ELSE t3
    IN  IF ok3 THEN WithColumn(t4, "Shipment_Weekday",
                        [i \in 1..n |-> dt_weekday(t.rows[i]["Shipment_Date"])])
        ELSE t4

\* ------------------------------------------- 4. compliance & risk features

\* mutant: the flag set from the second offense on
Has_Prior_Offense_FromSecond(prior_offense_count) == IF prior_offense_count > 1 THEN 1 ELSE 0

\* (df['Prior_Offense_Count'] > 0).astype(int)
Has_Prior_Offense(prior_offense_count) == IF prior_offense_count > 0 THEN 1 ELSE 0

\* mutant: the compliance score added instead of its complement
Compliance_Risk_Score_NoComplement(compliance_score, prior_offense_count) ==
    <<compliance_score + prior_offense_count * 300, 0>>

\* (1 - Compliance_Score) + Prior_Offense_Count * 0.3 in binary floating
\* point, as <<t, e>>: t thousandths and e units of 10^-17, the decimal that
\* the float prints as.  1 - 0.8 is 0.19999999999999996 and 3 * 0.3 is
\* 0.8999999999999999; the remainders are those of the compliance scores
\* 0, 0.5, 0.8, 1 with up to five offenses
Compliance_Risk_Score(compliance_score, prior_offense_count) ==
    LET p == <<compliance_score, prior_offense_count>>
        remainder == CASE p = <<800, 0>> -> -4
                       [] p = <<800, 1>> -> -6
                       [] p = <<800, 2>> -> -10
                       [] p = <<800, 3>> -> -10
                       [] p = <<1000, 3>> -> -10
                       [] OTHER -> 0
    IN  <<(1000 - compliance_score) + prior_offense_count * 300, remainder>>

\* df['Document_Status'].isin(['Missing', 'Error']).astype(int)
Document_Issue(document_status) == IF document_status \in {"Missing", "Error"} THEN 1 ELSE 0

\* bins=[0, 0.33, 0.66, 1.0], in thousandths
bins == <<0, 330, 660, 1000>>

labels == <<"Low", "Medium", "High">>

\* the missing value of a categorical cell
NaN == "NaN"

\* pd.cut(x, bins, labels): intervals open on the left and closed on the
\* right, the lowest edge not included; NaN outside every interval
Route_Risk_Level(x) ==
    IF \E i \in 1..Len(labels) : bins[i] < x /\ x <= bins[i + 1]
    THEN labels[CHOOSE i \in 1..Len(labels) : bins[i] < x /\ x <= bins[i + 1]]
    ELSE NaN

\* the four assignments of section 4 in order, ended by the first that
\* reads an absent column
RiskFeatures(t) ==
    LET n  == Len(t.rows)
        has(cols) == cols \subseteq ColumnSet(t)
        ok1 == has({"Prior_Offense_Count"})
        ok2 == ok1 /\ has({"Compliance_Score"})
        ok3 == ok2 /\ has({"Document_Status"})
        t1 == IF ok1 THEN WithColumn(t, "Has_Prior_Offense",
                              [i \in 1..n |-> Has_Prior_Offense(t.rows[i]["Prior_Offense_Count"])])
              ELSE t
        t2 == IF ok2 THEN WithColumn(t1, "Compliance_Risk_Score",
                              [i \in 1..n |-> Compliance_Risk_Score(t.rows[i]["Compliance_Score"],
                                                                    t.rows[i]["Prior_Offense_Count"])])
              ELSE t1
        t3 == IF ok3 THEN WithColumn(t2, "Document_Issue",
                              [i \in 1..n |-> Document_Issue(t.rows[i]["Document_Status"])])
              ELSE t2
    IN  IF ok3 /\ has({"Route_Risk_Index"})
        THEN WithColumn(t3, "Route_Risk_Level",
                 [i \in 1..n |-> Route_Risk_Level(t.rows[i]["Route_Risk_Index"])])
        ELSE t3

\* ---------------------------------------------------- 6. label encoding

categorical_cols ==
    <<"Origin_Country", "Destination_Country", "Transport_Mode", "Carrier_Name",
      "Route_Code", "Commodity_Type", "Tariff_Category", "Inspection_Type",
      "Document_Status", "Route_Risk_Level">>

\* the strings of the categorical cells, in Python's string order
StringOrder ==
    <<"A", "B", "C", "Electronics", "Error", "France", "High", "India", "Low", "Maersk",
      "Medium", "Missing", "R1", "Random", "Sea", "UK", "Valid", "missing">>

SortKey(v) == CHOOSE i \in 1..Len(StringOrder) : StringOrder[i] = v

\* classes_ order of LabelEncoder: sorted, the missing value last
Before(v, w) == IF v = NaN THEN FALSE ELSE IF w = NaN THEN TRUE ELSE SortKey(v) < SortKey(w)

\* mutant: codes given in the order of first appearance in the column
fit_transform_FirstSeen(values) ==
    LET first(v) == CHOOSE i \in 1..Len(values) :
                        values[i] = v /\ \A j \in 1..(i - 1) : values[j] # v
    IN  [i \in 1..Len(values) |->
            Cardinality({w \in Range(values) : first(w) < first(values[i])})]

\* le.fit_transform(values): the index of each value among the sorted
\* distinct values of the column
fit_transform(values) ==
    [i \in 1..Len(values) |-> Cardinality({w \in Range(values) : Before(w, values[i])})]

\* for col in cols: df[col] = le.fit_transform(df[col]), the loop ended by
\* the first column that is absent
RECURSIVE EncodeColumns(_, _)
EncodeColumns(t, cols) ==
    IF cols = <<>> \/ Head(cols) \notin ColumnSet(t) THEN t
    ELSE EncodeColumns(WithColumn(t, Head(cols), fit_transform(Column(t, Head(cols)))),
                       Tail(cols))

LabelEncoding(t) == EncodeColumns(t, categorical_cols)

\* ---------------------------------------------------------- 7. scaling

numeric_cols ==
    <<"Declared_Value_USD", "Weight_kg", "Compliance_Score", "Prior_Offense_Count",
      "Route_Risk_Index", "Planned_Transit_Days", "Actual_Transit_Days",
      "Compliance_Risk_Score">>

RECURSIVE SumSeq(_)
SumSeq(seq) == IF seq = <<>> THEN 0 ELSE Head(seq) + SumSeq(Tail(seq))

\* mutant: the sample standard deviation (n - 1 in the divisor)
scale_column_SampleStd(values) ==
    LET present == {i \in 1..Len(values) : values[i] # np_nan}
        n == Cardinality(present)
        S == SumSeq([i \in 1..Len(values) |-> IF i \in present THEN values[i] ELSE 0])
        dev == [i \in 1..Len(values) |-> IF i \in present THEN n * values[i] - S ELSE 0]
        q == SumSeq([i \in 1..Len(values) |-> dev[i] * dev[i]])
    IN  [i \in 1..Len(values) |->
            [d |-> IF i \in present THEN dev[i] ELSE np_nan, n |-> n - 1, q |-> q]]

\* StandardScaler on one column.  With n values of sum S, the deviation of
\* x from the mean is d/n for d = n*x - S, and the population variance is
\* q/n^3 for q the sum of the d*d.  The scaled value d*sqrt(n/q) is kept
\* exactly as [d, n, q]; a column of zero variance is divided by 1 and
\* becomes 0 (q = 0, d = 0).
\* Missing values are left out of the mean and the variance and stay missing.
scale_column(values) ==
    LET present == {i \in 1..Len(values) : values[i] # np_nan}
        n == Cardinality(present)
        S == SumSeq([i \in 1..Len(values) |-> IF i \in present THEN values[i] ELSE 0])
        dev == [i \in 1..Len(values) |-> IF i \in present THEN n * values[i] - S ELSE 0]
        q == SumSeq([i \in 1..Len(values) |-> dev[i] * dev[i]])
    IN  [i \in 1..Len(values) |->
            [d |-> IF i \in present THEN dev[i] ELSE np_nan, n |-> n, q |-> q]]

\* the scaler's input: a float cell <<t, e>> enters as its t thousandths, the
\* remainder e being below the rounding of the scaler's own arithmetic
RECURSIVE ScaleColumns(_, _)
ScaleColumns(t, cols) ==
    LET values == IF Head(cols) = "Compliance_Risk_Score"
                  THEN [i \in 1..Len(t.rows) |-> t.rows[i][Head(cols)][1]]
                  ELSE Column(t, Head(cols))
    IN  IF cols = <<>> THEN t
        ELSE ScaleColumns(WithColumn(t, Head(cols), scale_column(values)), Tail(cols))

Scaling(t) == ScaleColumns(t, numeric_cols)

\* ------------------------------------------------ 8. drop unused columns

drop_cols == <<"Shipment_ID", "Shipment_Date", "Estimated_Arrival_Date",
               "Actual_Arrival_Date", "Delay_Reason">>

\* ------------------------------------------ 9. and 10. targets and datasets

TARGET_DELAY == "Arrival_Delay_Days"

TARGET_RISK == "Route_Risk_Level"

exclude_cols == <<TARGET_DELAY, TARGET_RISK, "Risk_Flag">>

\* mutant: only the two targets are dropped, Risk_Flag stays a feature
FeatureMatrix_KeepFlag(t) == DropColumns(t, {TARGET_DELAY, TARGET_RISK})

\* X = df.drop(columns=exclude_cols, errors='ignore')
FeatureMatrix(t) == DropColumns(t, Range(exclude_cols))

\* regression_df = X.copy(); regression_df[TARGET_DELAY] = y_reg
RegressionTable(x, t) == WithColumn(x, TARGET_DELAY, Column(t, TARGET_DELAY))

\* classification_df = X.copy(); classification_df[TARGET_RISK] = y_clf
ClassificationTable(x, t) == WithColumn(x, TARGET_RISK, Column(t, TARGET_RISK))

\* ---------------------------------------------------------------- 11. save

feature_metadata ==
    [numeric_features |-> numeric_cols,
     categorical_features |-> categorical_cols,
     regression_target |-> TARGET_DELAY,
     classification_target |-> TARGET_RISK]

NoOutput == [exists |-> FALSE, columns |-> <<>>, rows |-> <<>>]

\* DataFrame.to_csv(path, index=False)
to_csv(t) == [exists |-> TRUE, columns |-> t.columns, rows |-> t.rows]

NoMetadata == [exists |-> FALSE]

\* json.dump(feature_metadata, f)
json_dump(m) == [exists |-> TRUE, content |-> m]

\* ---------------------------------------------------- World Bank scrapers

\* per_page of the request URL, the page size the loops compare with
per_page == 20000

\* the characters of the strings the scrapers handle
Chars(s) ==
    CASE s = "" -> <<>>
      [] s = "IN" -> <<"I", "N">>
      [] s = "HK" -> <<"H", "K">>
      [] s = "XD" -> <<"X", "D">>
      [] s = "FR" -> <<"F", "R">>
      [] s = "US" -> <<"U", "S">>
      [] s = "GB" -> <<"G", "B">>
      [] s = "India" -> <<"I", "n", "d", "i", "a">>
      [] s = "Hong Kong SAR, China" -> <<"H", "o", "n", "g", " ", "K", "o", "n", "g", " ", "S", "A", "R", ",", " ", "C", "h", "i", "n", "a">>
      [] s = "High income" -> <<"H", "i", "g", "h", " ", "i", "n", "c", "o", "m", "e">>
      [] s = "France" -> <<"F", "r", "a", "n", "c", "e">>
      [] s = "United States" -> <<"U", "n", "i", "t", "e", "d", " ", "S", "t", "a", "t", "e", "s">>
      [] s = "United Kingdom" -> <<"U", "n", "i", "t", "e", "d", " ", "K", "i", "n", "g", "d", "o", "m">>
      [] s = "Australia" -> <<"A", "u", "s", "t", "r", "a", "l", "i", "a">>
      [] s = "Brazil" -> <<"B", "r", "a", "z", "i", "l">>
      [] s = "China" -> <<"C", "h", "i", "n", "a">>
      [] s = "Germany" -> <<"G", "e", "r", "m", "a", "n", "y">>
      [] s = "Japan" -> <<"J", "a", "p", "a", "n">>
      [] s = "South Africa" -> <<"S", "o", "u", "t", "h", " ", "A", "f", "r", "i", "c", "a">>
      [] s = "UAE" -> <<"U", "A", "E">>
      [] s = "UK" -> <<"U", "K">>
      [] s = "USA" -> <<"U", "S", "A">>
      [] s = "2022" -> <<"2", "0", "2", "2">>
      [] s = "2018" -> <<"2", "0", "1", "8">>
      [] s = "2022Q1" -> <<"2", "0", "2", "2", "Q", "1">>

UpperLetters ==
    <<"A", "B", "C", "D", "E", "F", "G", "H", "I", "J", "K", "L", "M",
      "N", "O", "P", "Q", "R", "S", "T", "U", "V", "W", "X", "Y", "Z">>

LowerLetters ==
    <<"a", "b", "c", "d", "e", "f", "g", "h", "i", "j", "k", "l", "m",
      "n", "o", "p", "q", "r", "s", "t", "u", "v", "w", "x", "y", "z">>

\* str.lower() on the characters of a string
lower(cs) ==
    [i \in 1..Len(cs) |->
        IF \E k \in 1..Len(UpperLetters) : UpperLetters[k] = cs[i]
        THEN LowerLetters[CHOOSE k \in 1..Len(UpperLetters) : UpperLetters[k] = cs[i]]
        ELSE cs[i]]

\* a in b, for the characters of two strings: a occurs in b as a substring
IsIn(a, b) == \E k \in 0..(Len(b) - Len(a)) : \A i \in 1..Len(a) : b[k + i] = a[i]

DigitChars == <<"0", "1", "2", "3", "4", "5", "6", "7", "8", "9">>

\* str.isdigit()
isdigit(cs) ==
    cs # <<>> /\ \A i \in 1..Len(cs) : \E k \in 1..Len(DigitChars) : DigitChars[k] = cs[i]

RECURSIVE int(_)
\* int() of a string of digits
int(cs) ==
    IF cs = <<>> THEN 0
    ELSE int(SubSeq(cs, 1, Len(cs) - 1)) * 10
         + (CHOOSE k \in 1..Len(DigitChars) : DigitChars[k] = cs[Len(cs)]) - 1

\* int(date) if date and date.isdigit() else None
Year(date) == IF isdigit(Chars(date)) THEN Some(int(Chars(date))) ELSE None

\* country.get("id", "").startswith("X") or country.get("id") in {...}
IsAggregate(id) ==
    \/ Chars(id) # <<>> /\ Chars(id)[1] = "X"
    \/ id \in {"WLD", "HIC", "LIC", "LMC", "UMC"}

RECURSIVE KeepSimple(_)
\* worldbank_scraper_simple: the loop over the observations of a page; the
\* records appended to results
KeepSimple(observations) ==
    IF observations = <<>> THEN <<>>
    ELSE LET obs == Head(observations)
             rest == KeepSimple(Tail(observations))
         IN  IF IsAggregate(obs.id) \/ obs.value = None THEN rest
             ELSE <<[country_id |-> obs.id, country_name |-> obs.name,
                     year |-> Year(obs.date), value |-> obs.value[1]]>> \o rest

\* ISO2 code and dataset name, in the order of the dict literal
TARGET_COUNTRIES ==
    << <<"AU", "Australia">>, <<"BR", "Brazil">>, <<"CN", "China">>,
       <<"DE", "Germany">>, <<"IN", "India">>, <<"JP", "Japan">>,
       <<"ZA", "South Africa">>, <<"AE", "UAE">>, <<"GB", "UK">>, <<"US", "USA">> >>

\* the keys of TARGET_COUNTRIES
TargetIds == {TARGET_COUNTRIES[i][1] : i \in 1..Len(TARGET_COUNTRIES)}

\* TARGET_COUNTRIES[country_id]
TargetName(country_id) ==
    TARGET_COUNTRIES[CHOOSE i \in 1..Len(TARGET_COUNTRIES) :
                         TARGET_COUNTRIES[i][1] = country_id][2]

RECURSIVE KeepPort(_)
\* port_efficiency_scraper: the loop over the observations of a page
KeepPort(observations) ==
    IF observations = <<>> THEN <<>>
    ELSE LET obs == Head(observations)
             rest == KeepPort(Tail(observations))
         IN  IF obs.id \in TargetIds
             THEN <<[country_id |-> obs.id, country_name |-> TargetName(obs.id),
                     year |-> obs.date, value |-> obs.value]>> \o rest
             ELSE rest

\* name.lower() in country_name_val or country_name_val in name.lower()
NameMatches(name, country_name_val) ==
    \/ IsIn(lower(Chars(name)), country_name_val)
    \/ IsIn(country_name_val, lower(Chars(name)))

RECURSIVE KeepCustoms(_)
\* worldbank_customs_scraper: the loop over the observations of a page; an
\* observation is kept when any target name matches, under the first name of
\* TARGET_COUNTRIES that matches
KeepCustoms(observations) ==
    IF observations = <<>> THEN <<>>
    ELSE LET obs == Head(observations)
             rest == KeepCustoms(Tail(observations))
             country_name_val == lower(Chars(obs.name))
             matching == {i \in 1..Len(TARGET_COUNTRIES) :
                             NameMatches(TARGET_COUNTRIES[i][2], country_name_val)}
             first == CHOOSE i \in matching : \A j \in matching : i <= j
         IN  IF matching # {}
             THEN <<[country_id |-> obs.id, country_name |-> TARGET_COUNTRIES[first][2],
                     year |-> obs.date, value |-> obs.value]>> \o rest
             ELSE rest

RECURSIVE LatestFold_LastWins(_, _)
LatestFold_LastWins(raw, acc) ==
    IF raw = <<>> THEN acc
    ELSE LET row == Head(raw)
             cid == row.country_id
             entry == [country_name |-> row.country_name, year |-> row.year[1],
                       value |-> row.value]
             next == IF row.year # None
                     THEN [c \in DOMAIN acc \cup {cid} |->
                              IF c = cid THEN entry ELSE acc[c]]
                     ELSE acc
         IN  LatestFold_LastWins(Tail(raw), next)

\* mutant: a later row of a country replaces the entry whatever its year
latest_by_country_LastWins(raw) == LatestFold_LastWins(raw, EmptyDict)

RECURSIVE LatestFold(_, _)
\* the loop of _latest_by_country over raw
LatestFold(raw, acc) ==
    IF raw = <<>> THEN acc
    ELSE LET row == Head(raw)
             cid == row.country_id
             year == row.year
             entry == [country_name |-> row.country_name, year |-> year[1],
                       value |-> row.value]
             replace == /\ year # None
                        /\ (cid \notin DOMAIN acc \/ year[1] > acc[cid].year)
             next == IF replace
                     THEN [c \in DOMAIN acc \cup {cid} |->
                              IF c = cid THEN entry ELSE acc[c]]
                     ELSE acc
         IN  LatestFold(Tail(raw), next)

\* _latest_by_country(raw): country_id -> {country_name, year, value}
latest_by_country(raw) == LatestFold(raw, EmptyDict)

\* ------------------------------------------------ World Bank API responses

\* an observation of the API: country id and name, date, value (values in
\* hundredths)
Observation(id, name, date, value) ==
    [id |-> id, name |-> name, date |-> date, value |-> value]

\* an aggregate row, of which a full page has as many as it takes to hold
\* per_page observations
Filler == Observation("XD", "High income", "2022", Some(350))

\* the observations a page may hold besides aggregate rows
PageContents ==
    { <<>>,
      <<Observation("IN", "India", "2022", Some(340))>>,
      <<Observation("IN", "India", "2022", Some(340)),
        Observation("HK", "Hong Kong SAR, China", "2022", Some(400))>>,
      <<Observation("IN", "India", "2018", Some(300)),
        Observation("IN", "India", "2022", Some(360)),
        Observation("IN", "India", "", Some(310))>>,
      <<Observation("", "", "2022", Some(100)),
        Observation("US", "United States", "2022", Some(380))>>,
      <<Observation("FR", "France", "2022", None),
        Observation("GB", "United Kingdom", "2022Q1", Some(370)),
        Observation("IN", "India", "2018", Some(300))>> }

\* what a request for page p may come back with:
\*   "error"    requests.get raises ConnectionError or Timeout, or the status
\*              is an HTTP error and raise_for_status raises HTTPError;
\*   "notjson"  a body that is not JSON: resp.json() raises JSONDecodeError;
\*   "short"    a JSON body with fewer than two elements;
\*   "three"    a list of three elements, the second the observations;
\*   "ok"       a [meta, observations] pair;
\* with `raises`, the exception of the statement that raises on it (for a
\* list of three, the unpacking of the simple scraper), the observations
\* (full: the page holds per_page of them) and the page count that meta
\* reports (this page the last, or more to come)
Responses(p) ==
    {[kind |-> "error", raises |-> e, obs |-> <<>>, full |-> FALSE, pages |-> 1] :
        e \in {"ConnectionError", "Timeout", "HTTPError"}}
    \cup {[kind |-> k, raises |-> "JSONDecodeError", obs |-> <<>>, full |-> FALSE, pages |-> 1] :
             k \in {"notjson"}}
    \cup {[kind |-> k, raises |-> "", obs |-> <<>>, full |-> FALSE, pages |-> 1] :
             k \in {"short"}}
    \cup {[kind |-> "three", raises |-> "ValueError",
           obs |-> <<Observation("IN", "India", "2022", Some(340))>>,
           full |-> f, pages |-> 1] : f \in BOOLEAN}
    \cup {[kind |-> "ok", raises |-> "", obs |-> o, full |-> f, pages |-> n] :
             o \in PageContents, f \in BOOLEAN, n \in {1, p + 1}}

\* len(observations)
len(resp) == IF resp.full THEN per_page ELSE Len(resp.obs)

\* the observations of a response the loop body is followed on: those of
\* the page and, of a full page, one of its aggregate rows
Observations(resp) == resp.obs \o (IF resp.full THEN <<Filler>> ELSE <<>>)

\* ------------------------------------------------ fetch_lpi_data_simple

\* LPI_INDICATORS: indicator code and column name, in the order of the dict
LPI_INDICATORS ==
    <<<<"LP.LPI.OVRL.XQ", "LPI_Overall">>, <<"LP.LPI.CUST.XQ", "LPI_Customs">>,
      <<"LP.LPI.INFR.XQ", "LPI_Infrastructure">>, <<"LP.LPI.LOGS.XQ", "LPI_Logistics">>,
      <<"LP.LPI.TRAC.XQ", "LPI_Tracking">>, <<"LP.LPI.TIME.XQ", "LPI_Timeliness">>>>

\* the pages the indicators after the first are answered with: no
\* observation, India observed in 2022, or India last observed in 2018
LaterContents ==
    { <<>>,
      <<Observation("IN", "India", "2022", Some(340))>>,
      <<Observation("FR", "France", "2022", None),
        Observation("GB", "United Kingdom", "2022Q1", Some(370)),
        Observation("IN", "India", "2018", Some(300))>> }

\* what a request for page p of the i-th indicator may come back with; the
\* indicators after the first are answered by an error or in a single page
ResponsesTo(i, p) ==
    IF i <= 1 THEN Responses(p)
    ELSE {[kind |-> "error", raises |-> "HTTPError", obs |-> <<>>, full |-> FALSE, pages |-> 1]}
         \cup {[kind |-> "ok", raises |-> "", obs |-> o, full |-> FALSE, pages |-> 1] :
                  o \in LaterContents}

RECURSIVE KeyOrder(_, _)
\* the order of latest.items(): the country ids in the order in which
\* _latest_by_country inserted them
KeyOrder(raw, seen) ==
    IF raw = <<>> THEN <<>>
    ELSE LET row == Head(raw)
             cid == row.country_id
         IN  IF row.year = None \/ cid \in seen
             THEN KeyOrder(Tail(raw), seen)
             ELSE <<cid>> \o KeyOrder(Tail(raw), seen \cup {cid})

\* combined = {}: the country ids in insertion order and their rows
EmptyCombined == [keys |-> <<>>, rows |-> EmptyDict]

\* the body of the loop over latest.items(): the row of cid is created with
\* the year of this indicator if combined has none, and gets the value
CombineOne(comb, cid, info, col_name) ==
    LET fresh == cid \notin DOMAIN comb.rows
        base == IF fresh
                THEN [k \in {"country_id", "country_name", "year"} |->
                         IF k = "country_id" THEN cid
                         ELSE IF k = "country_name" THEN info.country_name
                         ELSE info.year]
                ELSE comb.rows[cid]
        row == [k \in DOMAIN base \cup {col_name} |->
                   IF k = col_name THEN info.value ELSE base[k]]
    IN  [keys |-> IF fresh THEN Append(comb.keys, cid) ELSE comb.keys,
         rows |-> [c \in DOMAIN comb.rows \cup {cid} |->
                      IF c = cid THEN row ELSE comb.rows[c]]]

RECURSIVE CombineAll(_, _, _, _)
\* for cid, info in latest.items()
CombineAll(comb, order, lat, col_name) ==
    IF order = <<>> THEN comb
    ELSE CombineAll(CombineOne(comb, Head(order), lat[Head(order)], col_name),
                    Tail(order), lat, col_name)

\* fieldnames of the combined file
out_fieldnames ==
    <<"country_id", "country_name", "year">>
        \o [i \in 1..Len(LPI_INDICATORS) |-> LPI_INDICATORS[i][2]]

out_path == "data/external/raw/worldbank_lpi_simple.csv"

\* the text DictWriter puts in a cell: '' for a key the row does not have,
\* str() of the year and of the float values
CellText(row, field) ==
    IF field \notin DOMAIN row THEN ""
    ELSE IF field \in {"country_id", "country_name"} THEN row[field]
    ELSE IF field = "year" THEN IntStr(row[field])
    ELSE FloatStr(row[field])

\* writer.writeheader() and writer.writerow(row) for row in combined.values()
WriteCombinedCsv(comb) ==
    [exists |-> TRUE,
     header |-> out_fieldnames,
     rows |-> [i \in 1..Len(comb.keys) |->
                  [f \in Range(out_fieldnames) |-> CellText(comb.rows[comb.keys[i]], f)]]]

FetchIdle ==
    /\ scraper = "off"
    /\ page = 1
    /\ results = <<>>
    /\ requests = <<>>
    /\ responses = <<>>
    /\ fpc = "off"
    /\ ferror = ""
    /\ latest = EmptyDict
    /\ indicator = 0
    /\ combined = EmptyCombined
    /\ latests = <<>>
    /\ out_file = NoFile

\* ------------------------------------------------ single-column inputs

\* the sequences of 1 to MaxColumnLen cells over a set of values
ColumnsOver(values) == UNION {[1..n -> values] : n \in 1..MaxColumnLen}

\* the cells of a categorical column
CategoryValues == {"A", "B", "C"}

\* the cells of a numeric column, a missing one among them
NumberValues == {0, 1, 3, np_nan}

ColumnIdle == col_kind = "off" /\ run_input = <<>> /\ run_output = <<>>

\* -------------------------------------------------- feature pipeline inputs

RequiredColumns ==
    <<"Shipment_ID", "Shipment_Date", "Estimated_Arrival_Date", "Actual_Arrival_Date",
      "Delay_Reason", "Origin_Country", "Destination_Country", "Transport_Mode",
      "Carrier_Name", "Route_Code", "Commodity_Type", "Tariff_Category",
      "Inspection_Type", "Document_Status", "Declared_Value_USD", "Weight_kg",
      "Compliance_Score", "Prior_Offense_Count", "Route_Risk_Index">>

\* a shipment row of the raw dataset; scores and indices in thousandths
InputRow(dates, score, offenses, status, risk_index) ==
    [Shipment_ID |-> "S1",
     Shipment_Date |-> dates[1],
     Estimated_Arrival_Date |-> dates[2],
     Actual_Arrival_Date |-> dates[3],
     Delay_Reason |-> "Customs hold",
     Origin_Country |-> "India",
     Destination_Country |-> "UK",
     Transport_Mode |-> "Sea",
     Carrier_Name |-> "Maersk",
     Route_Code |-> "R1",
     Commodity_Type |-> "Electronics",
     Tariff_Category |-> "A",
     Inspection_Type |-> "Random",
     Document_Status |-> status,
     Declared_Value_USD |-> 1000 + 10 * offenses,
     Weight_kg |-> 50 + risk_index \div 100,
     Compliance_Score |-> score,
     Prior_Offense_Count |-> offenses,
     Route_Risk_Index |-> risk_index]

ScenarioDates == << <<2024, 1, 1>>, <<2024, 1, 10>>, <<2024, 1, 12>> >>

\* dates around a year end and a leap day
Dates == { <<2023, 12, 31>>, <<2024, 2, 28>>, <<2024, 2, 29>>, <<2024, 3, 1>> }

DateTriples == {ScenarioDates} \cup (Dates \X Dates \X Dates)

\* the scenario dates with one cell empty, or one cell naming no calendar day
MalformedDates ==
    {[ScenarioDates EXCEPT ![k] = c] : k \in 1..3, c \in {<<>>, <<2024, 2, 30>>}}

ScoreValues == {0, 500, 800, 1000}

StatusValues == {"Valid", "Missing", "Error", "missing"}

\* indices in [0, 1], with both sides of every bin edge
RiskIndexValues == {0, 1, 330, 331, 500, 660, 661, 999, 1000}

\* the scenario row, and the rows that differ from it in one group of fields
InputRows ==
    {InputRow(t, 800, 1, "Missing", 500) : t \in DateTriples \cup MalformedDates}
    \cup {InputRow(ScenarioDates, s, o, "Missing", 500) : s \in ScoreValues, o \in 0..MaxOffense}
    \cup {InputRow(ScenarioDates, 800, 1, st, 500) : st \in StatusValues}
    \cup {InputRow(ScenarioDates, 800, 1, "Missing", x) : x \in RiskIndexValues}

\* a required column left out of the file, one for each stage that reads columns
LeftOut == {"Actual_Arrival_Date", "Compliance_Score", "Delay_Reason",
            "Carrier_Name", "Weight_kg", "Shipment_ID"}

InputTables ==
    LET full == {[columns |-> RequiredColumns, rows |-> rs] :
                    rs \in UNION {[1..n -> InputRows] : n \in 1..MaxTableRows}}
        flag == {WithColumn(t, "Risk_Flag", [i \in 1..Len(t.rows) |-> 0]) : t \in full}
        base == [columns |-> RequiredColumns,
                 rows |-> <<InputRow(ScenarioDates, 800, 1, "Missing", 500)>>]
        short == {DropColumns(base, {c}) : c \in LeftOut}
    IN  full \cup flag \cup short

EnrichIdle ==
    /\ lpi_file = NoFile
    /\ raw_file = NoFile
    /\ backup_file = NoFile
    /\ pc = "off"
    /\ lpi_data = EmptyDict
    /\ rows = <<>>
    /\ fieldnames = None
    /\ missing_count = 0
    /\ written = 0
    /\ error = ""
    /\ runs = 0
    /\ pre_raw = NoFile
    /\ pre_backup = NoFile
    /\ original = NoFile
    /\ completed = 0

PipelineStart(stage) ==
    /\ ppc = stage
    /\ df = EmptyTable
    /\ delay_tfidf = None
    /\ X = EmptyTable
    /\ regression_df = EmptyTable
    /\ classification_df = EmptyTable
    /\ regression_file = NoOutput
    /\ classification_file = NoOutput
    /\ metadata_file = NoMetadata
    /\ perror = ""

PipelineIdle == input_csv = EmptyTable /\ PipelineStart("off")

InitPipeline ==
    /\ EnrichIdle
    /\ ColumnIdle
    /\ FetchIdle
    /\ input_csv \in InputTables
    /\ PipelineStart("load")

\* ---------------------------------------------------- enrich_dataset steps

raw_path == "data/raw/trade_customs_dataset.csv"

lpi_path == "data/external/raw/worldbank_lpi_simple.csv"

backup_path == "data/raw/trade_customs_dataset_backup.csv"

\* FileNotFoundError(f"Raw dataset not found at {raw_path}")
RawNotFound == "FileNotFoundError: Raw dataset not found at " \o raw_path

\* FileNotFoundError(f"LPI data not found at {lpi_path}")
LpiNotFound == "FileNotFoundError: LPI data not found at " \o lpi_path

Running == {"check_raw", "load_lpi", "read_raw", "validate", "open_backup",
            "copy_backup", "open_raw", "write_header", "write_rows"}

Finished == {"idle", "done", "aborted", "failed", "crashed"}

InitEnrich ==
    /\ lpi_file \in LpiFiles
    /\ raw_file \in RawFiles
    /\ backup_file = NoFile
    /\ pc = "idle"
    /\ lpi_data = EmptyDict
    /\ rows = <<>>
    /\ fieldnames = None
    /\ missing_count = 0
    /\ written = 0
    /\ error = ""
    /\ runs = 0
    /\ pre_raw = raw_file
    /\ pre_backup = backup_file
    /\ original = raw_file
    /\ completed = 0

\* the script is started: enrich_dataset() is called
StartRun ==
    /\ UNCHANGED <<pipe_vars, column_vars, fetch_vars>>
    /\ pc \in Finished
    /\ runs < MaxRuns
    /\ pc' = "check_raw"
    /\ runs' = runs + 1
    /\ pre_raw' = raw_file
    /\ pre_backup' = backup_file
    /\ lpi_data' = EmptyDict
    /\ rows' = <<>>
    /\ fieldnames' = None
    /\ missing_count' = 0
    /\ written' = 0
    /\ error' = ""
    /\ UNCHANGED <<lpi_file, raw_file, backup_file, original, completed>>

\* if not os.path.exists(raw_path): raise FileNotFoundError
CheckRaw ==
    /\ UNCHANGED <<pipe_vars, column_vars, fetch_vars>>
    /\ pc = "check_raw"
    /\ IF raw_file.exists
       THEN pc' = "load_lpi" /\ error' = error
       ELSE pc' = "failed" /\ error' = RawNotFound
    /\ UNCHANGED <<lpi_file, raw_file, backup_file, lpi_data, rows, fieldnames,
                   missing_count, written, runs, pre_raw, pre_backup,
                   original, completed>>

\* mutant: a lookup file that is absent is read as an empty lookup
LoadLpi_NoCheck ==
    /\ UNCHANGED <<pipe_vars, column_vars, fetch_vars>>
    /\ pc = "load_lpi"
    /\ pc' = "read_raw"
    /\ lpi_data' = IF lpi_file.exists THEN load_lpi_data(lpi_file) ELSE EmptyDict
    /\ UNCHANGED <<lpi_file, raw_file, backup_file, rows, fieldnames, error,
                   missing_count, written, runs, pre_raw, pre_backup,
                   original, completed>>

\* lpi_data = load_lpi_data()
LoadLpi ==
    /\ UNCHANGED <<pipe_vars, column_vars, fetch_vars>>
    /\ pc = "load_lpi"
    /\ IF lpi_file.exists
       THEN pc' = "read_raw" /\ error' = error /\ lpi_data' = load_lpi_data(lpi_file)
       ELSE pc' = "failed" /\ error' = LpiNotFound
            /\ lpi_data' = lpi_data
    /\ UNCHANGED <<lpi_file, raw_file, backup_file, rows, fieldnames,
                   missing_count, written, runs, pre_raw, pre_backup,
                   original, completed>>

\* the reader loop: fieldnames and the enriched rows, in memory only
ReadRaw ==
    /\ UNCHANGED <<pipe_vars, column_vars, fetch_vars>>
    /\ pc = "read_raw"
    /\ fieldnames' = IF raw_file.header = <<>> THEN None ELSE Some(raw_file.header)
    /\ rows' = EnrichRows(lpi_data, raw_file.rows)
    /\ pc' = "validate"
    /\ UNCHANGED <<lpi_file, raw_file, backup_file, lpi_data, missing_count,
                   written, error, runs, pre_raw, pre_backup,
                   original, completed>>

\* mutant: the backup is written before the validation decides
Validate_BackupFirst ==
    /\ UNCHANGED <<pipe_vars, column_vars, fetch_vars>>
    /\ pc = "validate"
    /\ missing_count' = CountMissing(rows)
    /\ backup_file' = raw_file
    /\ IF missing_count' > 0
       THEN pc' = "aborted" /\ error' = "ValueError: rows with missing LPI values"
       ELSE IF fieldnames = None
       THEN pc' = "failed" /\ error' = "TypeError: fieldnames is None"
       ELSE pc' = "open_backup" /\ error' = error
    /\ UNCHANGED <<lpi_file, raw_file, lpi_data, rows, fieldnames,
                   written, runs, pre_raw, pre_backup,
                   original, completed>>

\* the validation loop, the raise on missing_count > 0, and
\* new_fieldnames = list(fieldnames) + lpi_columns
Validate ==
    /\ UNCHANGED <<pipe_vars, column_vars, fetch_vars>>
    /\ pc = "validate"
    /\ missing_count' = CountMissing(rows)
    /\ IF missing_count' > 0
       THEN pc' = "aborted" /\ error' = "ValueError: rows with missing LPI values"
       ELSE IF fieldnames = None
       THEN pc' = "failed" /\ error' = "TypeError: fieldnames is None"
       ELSE pc' = "open_backup" /\ error' = error
    /\ UNCHANGED <<lpi_file, raw_file, backup_file, lpi_data, rows, fieldnames,
                   written, runs, pre_raw, pre_backup,
                   original, completed>>

\* with open(backup_path, 'w') as f
OpenBackup ==
    /\ UNCHANGED <<pipe_vars, column_vars, fetch_vars>>
    /\ pc = "open_backup"
    /\ backup_file' = Truncated
    /\ pc' = "copy_backup"
    /\ UNCHANGED <<lpi_file, raw_file, lpi_data, rows, fieldnames, missing_count,
                   written, error, runs, pre_raw, pre_backup,
                   original, completed>>

\* mutant: only the header line of the primary file reaches the backup
CopyBackup_HeaderOnly ==
    /\ UNCHANGED <<pipe_vars, column_vars, fetch_vars>>
    /\ pc = "copy_backup"
    /\ backup_file' = [raw_file EXCEPT !.rows = <<>>]
    /\ pc' = "open_raw"
    /\ UNCHANGED <<lpi_file, raw_file, lpi_data, rows, fieldnames, missing_count,
                   written, error, runs, pre_raw, pre_backup,
                   original, completed>>

\* f.write(orig.read()) and the close of both files
CopyBackup ==
    /\ UNCHANGED <<pipe_vars, column_vars, fetch_vars>>
    /\ pc = "copy_backup"
    /\ backup_file' = raw_file
    /\ pc' = "open_raw"
    /\ UNCHANGED <<lpi_file, raw_file, lpi_data, rows, fieldnames, missing_count,
                   written, error, runs, pre_raw, pre_backup,
                   original, completed>>

\* with open(raw_path, 'w') as f
OpenRaw ==
    /\ UNCHANGED <<pipe_vars, column_vars, fetch_vars>>
    /\ pc = "open_raw"
    /\ raw_file' = Truncated
    /\ pc' = "write_header"
    /\ UNCHANGED <<lpi_file, backup_file, lpi_data, rows, fieldnames, missing_count,
                   written, error, runs, pre_raw, pre_backup,
                   original, completed>>

\* writer.writeheader() with new_fieldnames
WriteHeader ==
    /\ UNCHANGED <<pipe_vars, column_vars, fetch_vars>>
    /\ pc = "write_header"
    /\ raw_file' = [raw_file EXCEPT !.header = fieldnames[1] \o lpi_columns]
    /\ pc' = "write_rows"
    /\ UNCHANGED <<lpi_file, backup_file, lpi_data, rows, fieldnames, missing_count,
                   written, error, runs, pre_raw, pre_backup,
                   original, completed>>

\* writer.writerows(rows), one row reaching the file at a time
WriteRow ==
    /\ UNCHANGED <<pipe_vars, column_vars, fetch_vars>>
    /\ pc = "write_rows"
    /\ written < Len(rows)
    /\ raw_file' = [raw_file EXCEPT !.rows = Append(@, rows[written + 1])]
    /\ written' = written + 1
    /\ UNCHANGED <<lpi_file, backup_file, pc, lpi_data, rows, fieldnames,
                   missing_count, error, runs, pre_raw, pre_backup,
                   original, completed>>

\* the file is closed and enrich_dataset returns
Finish ==
    /\ UNCHANGED <<pipe_vars, column_vars, fetch_vars>>
    /\ pc = "write_rows"
    /\ written = Len(rows)
    /\ pc' = "done"
    /\ completed' = completed + 1
    /\ UNCHANGED <<lpi_file, raw_file, backup_file, lpi_data, rows, fieldnames,
                   missing_count, written, error, runs, pre_raw, pre_backup, original>>

\* the process is killed between two steps; the files stay as they are
Crash ==
    /\ UNCHANGED <<pipe_vars, column_vars, fetch_vars>>
    /\ pc \in Running
    /\ pc' = "crashed"
    /\ error' = "killed"
    /\ UNCHANGED <<lpi_file, raw_file, backup_file, lpi_data, rows, fieldnames,
                   missing_count, written, runs, pre_raw, pre_backup,
                   original, completed>>

Init == InitEnrich /\ PipelineIdle /\ ColumnIdle /\ FetchIdle

Next ==
    \/ StartRun
    \/ CheckRaw
    \/ LoadLpi
    \/ ReadRaw
    \/ Validate
    \/ OpenBackup
    \/ CopyBackup
    \/ OpenRaw
    \/ WriteHeader
    \/ WriteRow
    \/ Finish
    \/ Crash

Spec == Init /\ [][Next]_vars

\* --------------------------------------------------- feature pipeline steps

\* a stage that reads the columns `needed` of df and leaves `out` in df;
\* a missing column raises KeyError and ends the script, df holding
\* `partial`, the work of the statements that ran before the one that raised
Stage(from, to, needed, out, partial) ==
    /\ ppc = from
    /\ IF needed \subseteq ColumnSet(df)
       THEN df' = out /\ ppc' = to /\ perror' = perror
       ELSE df' = partial /\ ppc' = "failed" /\ perror' = "KeyError"

\* df = pd.read_csv(RAW_PATH)
Load ==
    /\ UNCHANGED <<enrich_vars, column_vars, fetch_vars>>
    /\ ppc = "load"
    /\ df' = input_csv
    /\ ppc' = "dates"
    /\ UNCHANGED <<input_csv, delay_tfidf, X, regression_df, classification_df,
                   regression_file, classification_file, metadata_file, perror>>

\* for col in date_cols: df[col] = pd.to_datetime(df[col])
DateConversion ==
    /\ UNCHANGED <<enrich_vars, column_vars, fetch_vars>>
    /\ ppc = "dates"
    /\ IF DateError(df) = ""
       THEN df' = DateConversions(df) /\ ppc' = "transit" /\ perror' = perror
       ELSE df' = DateConversions(df) /\ ppc' = "failed" /\ perror' = DateError(df)
    /\ UNCHANGED <<input_csv, delay_tfidf, X, regression_df, classification_df,
                   regression_file, classification_file, metadata_file>>

Transit ==
    /\ UNCHANGED <<enrich_vars, column_vars, fetch_vars>>
    /\ Stage("transit", "risk", Range(date_cols), TransitFeatures(df), TransitFeatures(df))
    /\ UNCHANGED <<input_csv, delay_tfidf, X, regression_df, classification_df,
                   regression_file, classification_file, metadata_file>>

Risk ==
    /\ UNCHANGED <<enrich_vars, column_vars, fetch_vars>>
    /\ Stage("risk", "text",
             {"Prior_Offense_Count", "Compliance_Score", "Document_Status", "Route_Risk_Index"},
             RiskFeatures(df), RiskFeatures(df))
    /\ UNCHANGED <<input_csv, delay_tfidf, X, regression_df, classification_df,
                   regression_file, classification_file, metadata_file>>

\* mutant: the text stage hands over to the scaler, the encoding left out
TextFeature_SkipEncoding ==
    /\ UNCHANGED <<enrich_vars, column_vars, fetch_vars>>
    /\ Stage("text", "scale", {"Delay_Reason"}, df, df)
    /\ delay_tfidf' = IF ppc' = "scale" THEN Some(Len(df.rows)) ELSE delay_tfidf
    /\ UNCHANGED <<input_csv, X, regression_df, classification_df,
                   regression_file, classification_file, metadata_file>>

\* delay_tfidf = tfidf.fit_transform(df['Delay_Reason']): one matrix row for
\* each row of df; df is not changed
TextFeature ==
    /\ UNCHANGED <<enrich_vars, column_vars, fetch_vars>>
    /\ Stage("text", "encode", {"Delay_Reason"}, df, df)
    /\ delay_tfidf' = IF ppc' = "encode" THEN Some(Len(df.rows)) ELSE delay_tfidf
    /\ UNCHANGED <<input_csv, X, regression_df, classification_df,
                   regression_file, classification_file, metadata_file>>

Encode ==
    /\ UNCHANGED <<enrich_vars, column_vars, fetch_vars>>
    /\ Stage("encode", "scale", Range(categorical_cols), LabelEncoding(df), LabelEncoding(df))
    /\ UNCHANGED <<input_csv, delay_tfidf, X, regression_df, classification_df,
                   regression_file, classification_file, metadata_file>>

Scale ==
    /\ UNCHANGED <<enrich_vars, column_vars, fetch_vars>>
    /\ Stage("scale", "drop", Range(numeric_cols), Scaling(df), df)
    /\ UNCHANGED <<input_csv, delay_tfidf, X, regression_df, classification_df,
                   regression_file, classification_file, metadata_file>>

\* mutant: df.drop(columns=drop_cols, errors='ignore'), an absent column passed over
DropUnused_IgnoreMissing ==
    /\ UNCHANGED <<enrich_vars, column_vars, fetch_vars>>
    /\ ppc = "drop"
    /\ df' = DropColumns(df, Range(drop_cols))
    /\ ppc' = "targets"
    /\ UNCHANGED <<input_csv, delay_tfidf, X, regression_df, classification_df,
                   regression_file, classification_file, metadata_file, perror>>

\* df.drop(columns=drop_cols, inplace=True)
DropUnused ==
    /\ UNCHANGED <<enrich_vars, column_vars, fetch_vars>>
    /\ Stage("drop", "targets", Range(drop_cols), DropColumns(df, Range(drop_cols)), df)
    /\ UNCHANGED <<input_csv, delay_tfidf, X, regression_df, classification_df,
                   regression_file, classification_file, metadata_file>>

\* X, y_reg and y_clf: X is assigned before the targets are read
DefineTargets ==
    /\ UNCHANGED <<enrich_vars, column_vars, fetch_vars>>
    /\ Stage("targets", "final", {TARGET_DELAY, TARGET_RISK}, df, df)
    /\ X' = FeatureMatrix(df)
    /\ UNCHANGED <<input_csv, delay_tfidf, regression_df, classification_df,
                   regression_file, classification_file, metadata_file>>

CreateFinal ==
    /\ UNCHANGED <<enrich_vars, column_vars, fetch_vars>>
    /\ ppc = "final"
    /\ regression_df' = RegressionTable(X, df)
    /\ classification_df' = ClassificationTable(X, df)
    /\ ppc' = "save_regression"
    /\ UNCHANGED <<input_csv, df, delay_tfidf, X, regression_file, classification_file,
                   metadata_file, perror>>

\* regression_df.to_csv(regression_path, index=False)
SaveRegression ==
    /\ UNCHANGED <<enrich_vars, column_vars, fetch_vars>>
    /\ ppc = "save_regression"
    /\ regression_file' = to_csv(regression_df)
    /\ ppc' = "save_classification"
    /\ UNCHANGED <<input_csv, df, delay_tfidf, X, regression_df, classification_df,
                   classification_file, metadata_file, perror>>

\* classification_df.to_csv(classification_path, index=False)
SaveClassification ==
    /\ UNCHANGED <<enrich_vars, column_vars, fetch_vars>>
    /\ ppc = "save_classification"
    /\ classification_file' = to_csv(classification_df)
    /\ ppc' = "save_metadata"
    /\ UNCHANGED <<input_csv, df, delay_tfidf, X, regression_df, classification_df,
                   regression_file, metadata_file, perror>>

\* json.dump(feature_metadata, f, indent=4)
SaveMetadata ==
    /\ UNCHANGED <<enrich_vars, column_vars, fetch_vars>>
    /\ ppc = "save_metadata"
    /\ metadata_file' = json_dump(feature_metadata)
    /\ ppc' = "done"
    /\ UNCHANGED <<input_csv, df, delay_tfidf, X, regression_df, classification_df,
                   regression_file, classification_file, perror>>

NextPipeline ==
    \/ Load
    \/ DateConversion
    \/ Transit
    \/ Risk
    \/ TextFeature
    \/ Encode
    \/ Scale
    \/ DropUnused
    \/ DefineTargets
    \/ CreateFinal
    \/ SaveRegression
    \/ SaveClassification
    \/ SaveMetadata

SpecPipeline == InitPipeline /\ [][NextPipeline]_vars

\* ------------------------------------- the encoder and the scaler on a column

\* one column of the input file of two separate runs of the script, or one
\* numeric column of one run
InitColumn ==
    /\ EnrichIdle
    /\ PipelineIdle
    /\ FetchIdle
    /\ \/ /\ col_kind = "categorical"
          /\ run_input \in ColumnsOver(CategoryValues) \X ColumnsOver(CategoryValues)
          /\ run_output = << <<>>, <<>> >>
       \/ /\ col_kind = "numeric"
          /\ run_input \in {<<c>> : c \in ColumnsOver(NumberValues)}
          /\ run_output = << <<>> >>

\* df[col] = le.fit_transform(df[col]) in one of the runs; a run reads its own
\* input file and shares nothing with the other run
EncodeRun ==
    /\ UNCHANGED <<enrich_vars, pipe_vars, fetch_vars>>
    /\ col_kind = "categorical"
    /\ \E r \in DOMAIN run_input :
           /\ run_output[r] = <<>>
           /\ run_output' = [run_output EXCEPT ![r] = fit_transform(run_input[r])]
    /\ UNCHANGED <<col_kind, run_input>>

\* df[numeric_cols] = scaler.fit_transform(df[numeric_cols]), one column of it
ScaleRun ==
    /\ UNCHANGED <<enrich_vars, pipe_vars, fetch_vars>>
    /\ col_kind = "numeric"
    /\ \E r \in DOMAIN run_input :
           /\ run_output[r] = <<>>
           /\ run_output' = [run_output EXCEPT ![r] = scale_column(run_input[r])]
    /\ UNCHANGED <<col_kind, run_input>>

NextColumn ==
    \/ EncodeRun
    \/ ScaleRun

SpecColumn == InitColumn /\ [][NextColumn]_vars

\* ------------------------------------------------ the scrapers' fetch loops

\* the start of a scraper's fetch function for its first indicator; the simple
\* scraper goes on through the six indicators of fetch_lpi_data_simple
InitFetch ==
    /\ EnrichIdle
    /\ PipelineIdle
    /\ ColumnIdle
    /\ scraper \in {"simple", "port", "customs"}
    /\ page = 1
    /\ results = <<>>
    /\ requests = <<>>
    /\ responses = <<>>
    /\ fpc = "loop"
    /\ ferror = ""
    /\ latest = EmptyDict
    /\ indicator = 1
    /\ combined = EmptyCombined
    /\ latests = <<>>
    /\ out_file = NoFile

\* mutant: the page number is not advanced, the same page is asked for again
FetchPageSimple_SamePage ==
    /\ UNCHANGED <<enrich_vars, pipe_vars, column_vars>>
    /\ scraper = "simple"
    /\ fpc = "loop"
    /\ Len(requests) < MaxPages
    /\ \E resp \in ResponsesTo(indicator, page) :
           /\ requests' = Append(requests, page)
           /\ responses' = Append(responses, resp)
           /\ IF resp.kind \in {"error", "notjson", "three"}
              THEN fpc' = "raised" /\ ferror' = resp.raises /\ results' = results
              ELSE IF resp.kind = "short" \/ len(resp) = 0
              THEN fpc' = "returned" /\ UNCHANGED <<results, ferror>>
              ELSE /\ results' = results \o KeepSimple(Observations(resp))
                   /\ ferror' = ferror
                   /\ fpc' = IF page >= resp.pages THEN "returned" ELSE fpc
    /\ UNCHANGED <<scraper, page, latest, indicator, combined, latests, out_file>>

\* worldbank_scraper_simple._fetch_indicator: one pass of the while loop.
\* Nothing is inside a try: the exception of requests.get (ConnectionError,
\* Timeout), of raise_for_status (HTTPError), of resp.json() on a body that is
\* not JSON (JSONDecodeError) and of `meta, observations = data` on a list of
\* three (ValueError) leaves the function, and with it the script.  A body
\* that is not a list or has fewer than two elements breaks the loop.
FetchPageSimple ==
    /\ UNCHANGED <<enrich_vars, pipe_vars, column_vars>>
    /\ scraper = "simple"
    /\ fpc = "loop"
    /\ page <= MaxPages
    /\ \E resp \in ResponsesTo(indicator, page) :
           /\ requests' = Append(requests, page)
           /\ responses' = Append(responses, resp)
           /\ IF resp.kind \in {"error", "notjson", "three"}
              THEN fpc' = "raised" /\ ferror' = resp.raises /\ UNCHANGED <<page, results>>
              ELSE IF resp.kind = "short" \/ len(resp) = 0
              THEN fpc' = "returned" /\ UNCHANGED <<page, results, ferror>>
              ELSE /\ results' = results \o KeepSimple(Observations(resp))
                   /\ ferror' = ferror
                   /\ IF page >= resp.pages
                      THEN fpc' = "returned" /\ page' = page
                      ELSE fpc' = fpc /\ page' = page + 1
    /\ UNCHANGED <<scraper, latest, indicator, combined, latests, out_file>>

\* port_efficiency_scraper.fetch_indicator: one pass of the while loop; the
\* body is inside try, except Exception prints and breaks (a failed request,
\* an HTTP error status, a body that is not JSON).  A body of fewer than two
\* elements breaks; of a longer one data[1] is read, whatever follows it
FetchPagePort ==
    /\ UNCHANGED <<enrich_vars, pipe_vars, column_vars>>
    /\ scraper = "port"
    /\ fpc = "loop"
    /\ page <= MaxPages
    /\ \E resp \in Responses(page) :
           /\ requests' = Append(requests, page)
           /\ responses' = Append(responses, resp)
           /\ IF resp.kind \in {"error", "notjson", "short"} \/ len(resp) = 0
              THEN fpc' = "returned" /\ UNCHANGED <<page, results>>
              ELSE /\ results' = results \o KeepPort(Observations(resp))
                   /\ IF len(resp) < per_page
                      THEN fpc' = "returned" /\ page' = page
                      ELSE fpc' = fpc /\ page' = page + 1
    /\ UNCHANGED <<scraper, ferror, latest, indicator, combined, latests, out_file>>

\* worldbank_customs_scraper.fetch_indicator: one pass of the while loop; the
\* body is inside try, except Exception prints and breaks (a failed request,
\* an HTTP error status, a body that is not JSON).  A body of fewer than two
\* elements breaks; of a longer one data[1] is read, whatever follows it
FetchPageCustoms ==
    /\ UNCHANGED <<enrich_vars, pipe_vars, column_vars>>
    /\ scraper = "customs"
    /\ fpc = "loop"
    /\ page <= MaxPages
    /\ \E resp \in Responses(page) :
           /\ requests' = Append(requests, page)
           /\ responses' = Append(responses, resp)
           /\ IF resp.kind \in {"error", "notjson", "short"} \/ len(resp) = 0
              THEN fpc' = "returned" /\ UNCHANGED <<page, results>>
              ELSE /\ results' = results \o KeepCustoms(Observations(resp))
                   /\ IF len(resp) < per_page
                      THEN fpc' = "returned" /\ page' = page
                      ELSE fpc' = fpc /\ page' = page + 1
    /\ UNCHANGED <<scraper, ferror, latest, indicator, combined, latests, out_file>>

\* latest = _latest_by_country(raw), on the list _fetch_indicator returned
CollapseLatest ==
    /\ UNCHANGED <<enrich_vars, pipe_vars, column_vars>>
    /\ scraper = "simple"
    /\ fpc = "returned"
    /\ latest' = latest_by_country(results)
    /\ fpc' = "collapsed"
    /\ UNCHANGED <<scraper, page, results, requests, responses, ferror,
                   indicator, combined, latests, out_file>>

\* fetch_lpi_data_simple: the loop over latest.items() for the indicator just
\* fetched, and the call of _fetch_indicator for the next one
CombineIndicator ==
    /\ UNCHANGED <<enrich_vars, pipe_vars, column_vars>>
    /\ scraper = "simple"
    /\ fpc = "collapsed"
    /\ combined' = CombineAll(combined, KeyOrder(results, {}), latest,
                              LPI_INDICATORS[indicator][2])
    /\ latests' = Append(latests, latest)
    /\ IF indicator < Len(LPI_INDICATORS)
       THEN /\ indicator' = indicator + 1
            /\ page' = 1
            /\ results' = <<>>
            /\ requests' = <<>>
            /\ responses' = <<>>
            /\ fpc' = "loop"
       ELSE /\ fpc' = "combined"
            /\ UNCHANGED <<indicator, page, results, requests, responses>>
    /\ UNCHANGED <<scraper, ferror, latest, out_file>>

\* fetch_lpi_data_simple: the combined CSV is written
WriteCombined ==
    /\ UNCHANGED <<enrich_vars, pipe_vars, column_vars>>
    /\ scraper = "simple"
    /\ fpc = "combined"
    /\ out_file' = WriteCombinedCsv(combined)
    /\ fpc' = "written"
    /\ UNCHANGED <<scraper, page, results, requests, responses, ferror, latest,
                   indicator, combined, latests>>

NextFetch ==
    \/ FetchPageSimple
    \/ FetchPagePort
    \/ FetchPageCustoms
    \/ CollapseLatest
    \/ CombineIndicator
    \/ WriteCombined

SpecFetch == InitFetch /\ [][NextFetch]_vars

\* ===================================================================== claims

\* the rows held in memory have an empty cell among the 16 added columns
AnyEmptyCell == \E i \in 1..Len(rows) : \E c \in LpiColumnSet : rows[i][c] = ""

\* the positions of enrich_dataset before the validation has decided
BeforeDecision == {"idle", "off", "check_raw", "load_lpi", "read_raw", "validate"}

\* C1 (as stated): once the risk features are derived, every row whose
\* Route_Risk_Index lies in [0, 1] has exactly one of Low / Medium / High:
\* Low on [0, 0.33], Medium on (0.33, 0.66], High on (0.66, 1.0].
C1_RiskLevelTotal ==
    ppc = "text" =>
        \A i \in 1..Len(df.rows) :
            LET x == df.rows[i]["Route_Risk_Index"]
            IN  (0 <= x /\ x <= 1000) =>
                    df.rows[i]["Route_Risk_Level"] =
                        (IF x <= 330 THEN "Low" ELSE IF x <= 660 THEN "Medium" ELSE "High")

\* C2: if any of the 16 added cells of any joined row is empty, the run gets
\* no further than the validation: it aborts with the ValueError, and neither
\* the primary file nor the backup file has been written by the run.
C2_EmptyCellAbortsWithoutWrite ==
    /\ (AnyEmptyCell /\ pc \notin {"validate", "crashed"}) =>
           /\ pc = "aborted"
           /\ error = "ValueError: rows with missing LPI values"
    /\ AnyEmptyCell => raw_file = pre_raw /\ backup_file = pre_backup

\* C2 witness: a run aborted on a row whose destination has no lookup entry
C2_Witness ==
    /\ pc = "aborted"
    /\ raw_file.exists
    /\ \E i \in 1..Len(rows) : rows[i]["Destination_LPI_Overall"] = ""

\* C3 (as stated): a run completes only if every one of the 16 added cells of
\* every written row is a numeric value, never a placeholder for a blank
\* sub-index of the lookup row.
C3_CompletesOnlyWithNumericCells ==
    pc = "done" =>
        \A i \in 1..Len(raw_file.rows) : \A c \in LpiColumnSet :
            raw_file.rows[i][c] \notin {"", "None"}

\* C4 (as stated): on an abort for incompleteness the reported count is the
\* number of empty row/column cells among the 16 added columns.
C4_CountIsEmptyCells ==
    pc = "aborted" =>
        missing_count =
            Cardinality({p \in (1..Len(rows)) \X LpiColumnSet : rows[p[1]][p[2]] = ""})

\* C4 (amended): on an abort for incompleteness the reported count is the
\* number of rows that have at least one empty cell among the 16 added
\* columns, and it is not zero.
C4_CountIsOffendingRows ==
    pc = "aborted" =>
        /\ missing_count =
               Cardinality({i \in 1..Len(rows) : \E c \in LpiColumnSet : rows[i][c] = ""})
        /\ missing_count > 0

\* C4 witness: an abort with two rows read of which one is complete
C4_Witness == pc = "aborted" /\ Len(rows) = 2 /\ missing_count = 1

\* a shipment whose destination country has no entry in the loaded lookup
DestinationUnmatched ==
    \E i \in 1..Len(rows) : rows[i]["Destination_Country"] \notin DOMAIN lpi_data

\* C5 (as stated): when a destination country has no matching indicator row
\* the run aborts with a non-zero count, and at the abort the backup file has
\* been created while the primary file has not been overwritten.
C5_BackupCreatedAtAbort ==
    (DestinationUnmatched /\ pc = "aborted") =>
        /\ missing_count > 0
        /\ backup_file.exists
        /\ raw_file = pre_raw

\* C5 (amended): when a destination country has no matching indicator row the
\* run aborts with a non-zero count, and at the abort neither file has been
\* written by the run: the primary file and the backup file are as they were
\* when the run started (the backup is written only after the validation).
C5_NothingWrittenAtAbort ==
    (DestinationUnmatched /\ pc \notin BeforeDecision \cup {"crashed"}) =>
        /\ pc = "aborted"
        /\ missing_count > 0
        /\ raw_file = pre_raw
        /\ backup_file = pre_backup

\* C5 witness: an abort on an unmatched destination whose origin is matched
C5_Witness ==
    /\ pc = "aborted"
    /\ \E i \in 1..Len(rows) :
           /\ rows[i]["Destination_Country"] \notin DOMAIN lpi_data
           /\ rows[i]["Origin_Country"] \in DOMAIN lpi_data

\* C6: the backup holds the complete pre-run content of the primary file
\* before the primary file is opened for writing, so in every state of a run,
\* a crash included, one of the two files holds the complete pre-run dataset.
C6_BackupBeforeOverwrite ==
    /\ raw_file # pre_raw => backup_file = pre_raw
    /\ pc \in {"open_raw", "write_header", "write_rows", "done"} => backup_file = pre_raw

\* C6 witness: a crash in the middle of writerows, one row of two written
C6_Witness ==
    /\ pc = "crashed"
    /\ Len(pre_raw.rows) = 2
    /\ raw_file.header # <<>>
    /\ Len(raw_file.rows) = 1
    /\ backup_file = pre_raw

\* the pipeline positions at which the two final tables have been built
TablesBuilt == {"save_regression", "save_classification", "save_metadata", "done"}

\* C7: whether or not the input has a Risk_Flag column, a table with every
\* required column and dates that parse runs through the pipeline without error, and the column
\* sets are regression = F + {Arrival_Delay_Days} and classification =
\* F + {Route_Risk_Level} for one set F holding neither target nor Risk_Flag;
\* the two files written carry the same columns.
C7_TargetsSwapped ==
    /\ (Range(RequiredColumns) \subseteq ColumnSet(input_csv) /\ DateError(input_csv) = "")
           => ppc # "failed"
    /\ ppc \in TablesBuilt =>
           LET F == ColumnSet(X)
           IN  /\ F \cap {"Arrival_Delay_Days", "Route_Risk_Level", "Risk_Flag"} = {}
               /\ ColumnSet(regression_df) = F \cup {"Arrival_Delay_Days"}
               /\ ColumnSet(classification_df) = F \cup {"Route_Risk_Level"}
               /\ ColumnSet(regression_df) \ {"Arrival_Delay_Days"}
                      = ColumnSet(classification_df) \ {"Route_Risk_Level"}
    /\ ppc = "done" =>
           /\ regression_file.exists /\ classification_file.exists
           /\ Range(regression_file.columns) = ColumnSet(regression_df)
           /\ Range(classification_file.columns) = ColumnSet(classification_df)

\* C7 witness: the pipeline finished on an input that has a Risk_Flag column
C7_Witness ==
    /\ ppc = "done"
    /\ "Risk_Flag" \in ColumnSet(input_csv)
    /\ "Carrier_Name" \in ColumnSet(X)

\* a calendar date <<year, month, day>> as a day count: the days of the years
\* before it, of the months before it, and its day of the month
IsLeapYear(y) == y % 4 = 0 /\ (y % 100 # 0 \/ y % 400 = 0)

DaysBeforeMonth(y, m) ==
    <<0, 31, 59, 90, 120, 151, 181, 212, 243, 273, 304, 334>>[m]
    + (IF m > 2 /\ IsLeapYear(y) THEN 1 ELSE 0)

Ordinal(date) ==
    LET p == date[1] - 1
    IN  p * 365 + p \div 4 - p \div 100 + p \div 400 + DaysBeforeMonth(date[1], date[2]) + date[3]

\* d1 is not after d2
NotAfter(d1, d2) ==
    \/ d1[1] < d2[1]
    \/ d1[1] = d2[1] /\ d1[2] < d2[2]
    \/ d1[1] = d2[1] /\ d1[2] = d2[2] /\ d1[3] <= d2[3]

\* the pipeline positions at which the transit columns exist and are unscaled
TransitRaw == {"risk", "text", "encode", "scale"}

\* C8: the three day counts of a row with its three dates are integers equal
\* to the whole-day difference of the calendar dates (estimated - ship, actual - ship,
\* actual - estimated), each >= 0 when the later-named date is not before the
\* earlier-named one.
C8_WholeDayDifferences ==
    ppc \in TransitRaw =>
        \A i \in 1..Len(df.rows) :
            LET ship == input_csv.rows[i]["Shipment_Date"]
                est  == input_csv.rows[i]["Estimated_Arrival_Date"]
                act  == input_csv.rows[i]["Actual_Arrival_Date"]
                r    == df.rows[i]
            IN  (ship # <<>> /\ est # <<>> /\ act # <<>>) =>
                /\ r["Planned_Transit_Days"] \in Int
                /\ r["Actual_Transit_Days"] \in Int
                /\ r["Arrival_Delay_Days"] \in Int
                /\ r["Planned_Transit_Days"] = Ordinal(est) - Ordinal(ship)
                /\ r["Actual_Transit_Days"] = Ordinal(act) - Ordinal(ship)
                /\ r["Arrival_Delay_Days"] = Ordinal(act) - Ordinal(est)
                /\ NotAfter(ship, est) => r["Planned_Transit_Days"] >= 0
                /\ NotAfter(ship, act) => r["Actual_Transit_Days"] >= 0
                /\ NotAfter(est, act) => r["Arrival_Delay_Days"] >= 0

\* C8 witness: a planned transit over the leap day and an early arrival
C8_Witness ==
    /\ ppc = "risk"
    /\ input_csv.rows[1]["Shipment_Date"] = <<2024, 2, 28>>
    /\ input_csv.rows[1]["Estimated_Arrival_Date"] = <<2024, 3, 1>>
    /\ df.rows[1]["Planned_Transit_Days"] = 2
    /\ df.rows[1]["Arrival_Delay_Days"] < 0

\* the pipeline positions at which the risk columns exist and are unscaled
RiskRaw == {"text", "encode", "scale"}

\* a <= b for two float results <<thousandths, remainder>>
FloatLeq(a, b) == a[1] < b[1] \/ (a[1] = b[1] /\ a[2] <= b[2])

\* C9: the Compliance_Risk_Score of a row is not above the score of the same
\* Compliance_Score with any larger Prior_Offense_Count, and not below the
\* score of the same Prior_Offense_Count with any larger Compliance_Score.
C9_Monotone ==
    ppc \in RiskRaw =>
        \A i \in 1..Len(df.rows) :
            LET r == df.rows[i]
                raw == input_csv.rows[i]
            IN  /\ \A o \in 0..(MaxOffense + 1) :
                       /\ o >= raw["Prior_Offense_Count"] =>
                              FloatLeq(r["Compliance_Risk_Score"],
                                       Compliance_Risk_Score(raw["Compliance_Score"], o))
                       /\ o <= raw["Prior_Offense_Count"] =>
                              FloatLeq(Compliance_Risk_Score(raw["Compliance_Score"], o),
                                       r["Compliance_Risk_Score"])
                /\ \A s \in ScoreValues :
                       /\ s >= raw["Compliance_Score"] =>
                              FloatLeq(Compliance_Risk_Score(s, raw["Prior_Offense_Count"]),
                                       r["Compliance_Risk_Score"])
                       /\ s <= raw["Compliance_Score"] =>
                              FloatLeq(r["Compliance_Risk_Score"],
                                       Compliance_Risk_Score(s, raw["Prior_Offense_Count"]))

\* C9 witness: a derived score of a row with offenses and an imperfect score
C9_Witness ==
    /\ ppc = "text"
    /\ df.rows[1]["Prior_Offense_Count"] = 2
    /\ df.rows[1]["Compliance_Score"] = 800
    /\ df.rows[1]["Compliance_Risk_Score"] = <<800, -10>>

\* the row of the scenario: shipped 2024-01-01, estimated 2024-01-10, arrived
\* 2024-01-12, Compliance_Score 0.8, one prior offense, status Missing, index 0.5
IsScenarioRow(r) ==
    /\ r["Shipment_Date"] = <<2024, 1, 1>>
    /\ r["Estimated_Arrival_Date"] = <<2024, 1, 10>>
    /\ r["Actual_Arrival_Date"] = <<2024, 1, 12>>
    /\ r["Compliance_Score"] = 800
    /\ r["Prior_Offense_Count"] = 1
    /\ r["Document_Status"] = "Missing"
    /\ r["Route_Risk_Index"] = 500

\* the derivation of the scenario row with `score` for its
\* Compliance_Risk_Score, and the two flags of every row
ScenarioYields(score) ==
    ppc = "text" =>
        \A i \in 1..Len(df.rows) :
            LET r == df.rows[i]
            IN  /\ IsScenarioRow(input_csv.rows[i]) =>
                       /\ r["Planned_Transit_Days"] = 9
                       /\ r["Actual_Transit_Days"] = 11
                       /\ r["Arrival_Delay_Days"] = 2
                       /\ r["Has_Prior_Offense"] = 1
                       /\ r["Compliance_Risk_Score"] = score
                       /\ r["Document_Issue"] = 1
                       /\ r["Route_Risk_Level"] = "Medium"
                /\ r["Has_Prior_Offense"] = 1 <=> input_csv.rows[i]["Prior_Offense_Count"] > 0
                /\ r["Has_Prior_Offense"] \in {0, 1}
                /\ r["Document_Issue"] = 1 <=>
                       (input_csv.rows[i]["Document_Status"] = "Missing"
                        \/ input_csv.rows[i]["Document_Status"] = "Error")
                /\ r["Document_Issue"] \in {0, 1}

\* C10 as stated: the scenario row yields planned transit 9, actual transit
\* 11, arrival delay 2, Has_Prior_Offense 1, Compliance_Risk_Score 0.5,
\* Document_Issue 1 and Route_Risk_Level Medium.  The score is not 0.5.
C10_Scenario == ScenarioYields(<<500, 0>>)

\* C10: the scenario row yields planned transit 9, actual transit 11, arrival
\* delay 2, Has_Prior_Offense 1, Compliance_Risk_Score 0.49999999999999994
\* (the float sum of 0.19999999999999996 and 0.3, the float next below 0.5),
\* Document_Issue 1 and Route_Risk_Level Medium; in every row
\* Has_Prior_Offense is 1 exactly when the count is > 0 and Document_Issue is
\* 1 exactly when the status is "Missing" or "Error".
C10_ScenarioInFloat == ScenarioYields(<<500, -6>>)

\* C10 witness: the risk features of the scenario row have been derived
C10_Witness ==
    /\ ppc = "text"
    /\ IsScenarioRow(input_csv.rows[1])
    /\ df.rows[1]["Has_Prior_Offense"] = 1
    /\ df.rows[1]["Compliance_Risk_Score"] = <<500, -6>>

\* --------------------------------------------------------------------- C14

\* the run started without the raw dataset or without the lookup file
InputAbsent == pc \notin {"idle", "off"} /\ (~pre_raw.exists \/ ~lpi_file.exists)

\* C14: when the raw dataset or the lookup file is absent, the run never gets
\* to read a row or to write a file: past the two existence checks it has
\* failed with a FileNotFoundError that names the expected path (the raw
\* dataset is checked first), and the primary and the backup file are as they
\* were when the run started.
C14_AbsentInputFails ==
    InputAbsent =>
        /\ pc \in {"check_raw", "load_lpi", "failed", "crashed"}
        /\ pc = "load_lpi" => pre_raw.exists
        /\ pc = "failed" =>
               error = IF ~pre_raw.exists
                       THEN "FileNotFoundError: Raw dataset not found at data/raw/trade_customs_dataset.csv"
                       ELSE "FileNotFoundError: LPI data not found at data/external/raw/worldbank_lpi_simple.csv"
        /\ rows = <<>>
        /\ fieldnames = None
        /\ raw_file = pre_raw
        /\ backup_file = pre_backup

\* C14 witness: a run failed on the absent lookup file, the raw dataset present
C14_Witness ==
    /\ pc = "failed"
    /\ pre_raw.exists
    /\ ~lpi_file.exists
    /\ error = LpiNotFound
    /\ raw_file = pre_raw

\* --------------------------------------------------------------------- C15

\* the positions of the lookup rows of 2022 that belong to a dataset country
LookupRows(country) ==
    {j \in 1..Len(lpi_file.rows) :
        /\ lpi_file.rows[j].year = "2022"
        /\ lpi_file.rows[j].country_name \in TargetCountries
        /\ DatasetCountry(lpi_file.rows[j].country_name) = country}

\* the lookup row in force for a country: the last one in the file
LookupRow(country) ==
    lpi_file.rows[CHOOSE j \in LookupRows(country) : \A k \in LookupRows(country) : k <= j]

\* the country has a lookup entry with all six indicators present
CompleteEntry(country) ==
    /\ LookupRows(country) # {}
    /\ \A k \in LpiKeySet : LookupRow(country)[k] # ""

\* an indicator of a country's lookup entry, in hundredths
Indicator(country, key) == ParseFloat(LookupRow(country)[key])

\* the cell holds str() of a float that is the decimal number h hundredths up
\* to the rounding of binary64 arithmetic (less than 10^-15 away)
HoldsFloat(cell, h) ==
    \/ cell = FloatRepr(<<h, 0>>)
    \/ \E e \in -50..50 : cell = FloatRepr(<<h, e>>)

\* C15: after a completed run the primary file has its former header followed
\* by the 16 column names, the same number of rows in the same order with
\* every former non-LPI cell as it was, and each row whose origin and
\* destination have complete lookup entries holds the six origin indicators,
\* the six destination indicators, Route_LPI_Average = (o + d) / 2,
\* Route_LPI_Difference = d - o, Route_Customs_LPI_Average = (oc + dc) / 2 and
\* Route_Infrastructure_Gap = d_infra - o_infra, the four as results of float
\* arithmetic.
C15_SixteenColumnsAdded ==
    pc = "done" =>
        /\ raw_file.header = pre_raw.header \o lpi_columns
        /\ Len(lpi_columns) = 16
        /\ Len(raw_file.rows) = Len(pre_raw.rows)
        /\ \A i \in 1..Len(raw_file.rows) :
            LET before == pre_raw.rows[i]
                after == raw_file.rows[i]
                o == before["Origin_Country"]
                d == before["Destination_Country"]
            IN  /\ DOMAIN after = DOMAIN before \cup LpiColumnSet
                /\ \A c \in DOMAIN before \ LpiColumnSet : after[c] = before[c]
                /\ (CompleteEntry(o) /\ CompleteEntry(d)) =>
                    /\ \A k \in LpiKeySet :
                        /\ after["Origin_" \o k] = FloatStr(Indicator(o, k))
                        /\ after["Destination_" \o k] = FloatStr(Indicator(d, k))
                    /\ HoldsFloat(after["Route_LPI_Average"],
                         (Indicator(o, "LPI_Overall") + Indicator(d, "LPI_Overall")) \div 2)
                    /\ HoldsFloat(after["Route_LPI_Difference"],
                         Indicator(d, "LPI_Overall") - Indicator(o, "LPI_Overall"))
                    /\ HoldsFloat(after["Route_Customs_LPI_Average"],
                         (Indicator(o, "LPI_Customs") + Indicator(d, "LPI_Customs")) \div 2)
                    /\ HoldsFloat(after["Route_Infrastructure_Gap"],
                         Indicator(d, "LPI_Infrastructure") - Indicator(o, "LPI_Infrastructure"))

\* C15 witness: a first run completed on two rows, India -> UK then UK ->
\* India, both countries with complete entries
C15_Witness ==
    /\ pc = "done"
    /\ runs = 1
    /\ Len(raw_file.rows) = 2
    /\ CompleteEntry("India") /\ CompleteEntry("UK")
    /\ raw_file.rows[1]["Origin_Country"] = "India"
    /\ raw_file.rows[1]["Destination_Country"] = "UK"
    /\ raw_file.rows[1]["Route_LPI_Difference"] = "0.30000000000000027"
    /\ raw_file.rows[1]["Route_Infrastructure_Gap"] = "0.5"
    /\ raw_file.rows[2]["Origin_Country"] = "UK"
    /\ raw_file.rows[2]["Route_LPI_Difference"] = "-0.30000000000000027"
    /\ raw_file.rows[2]["Route_LPI_Average"] = "3.55"

\* --------------------------------------------------------------------- C12

\* the input has a date cell that names no calendar day, or lacks a required column
Malformed ==
    \/ \E i \in 1..Len(RequiredColumns) : RequiredColumns[i] \notin ColumnSet(input_csv)
    \/ \E r \in 1..Len(input_csv.rows) : \E k \in 1..Len(date_cols) :
           /\ date_cols[k] \in ColumnSet(input_csv)
           /\ ~Parseable(input_csv.rows[r][date_cols[k]])

\* none of the three output files exists
NothingWritten ==
    ~regression_file.exists /\ ~classification_file.exists /\ ~metadata_file.exists

\* the positions of the pipeline before the tables are assembled and saved
BeforeWriter == {"load", "dates", "transit", "risk", "text", "encode", "scale",
                 "drop", "targets"}

\* C12: a run that has failed has raised its exception and written none of the
\* three output files; a run on an input with an unparseable date cell or
\* without a required column never gets past the stages before the writer.
C12_FailureWritesNothing ==
    /\ ppc = "failed" => (NothingWritten /\ perror \in {"KeyError", "ValueError"})
    /\ (ppc # "off" /\ Malformed) => (NothingWritten /\ ppc \in BeforeWriter \cup {"failed"})

\* C12 witness: the date conversion raised on an arrival date 2024-02-30
C12_Witness ==
    /\ ppc = "failed"
    /\ perror = "ValueError"
    /\ input_csv.rows[1]["Actual_Arrival_Date"] = <<2024, 2, 30>>
    /\ NothingWritten

\* --------------------------------------------------------------------- C17

\* the positions of the script in the order of its text: load, temporal
\* derivation (dates, transit), risk derivation, text extraction, encoding,
\* scaling, pruning, and the split and write (targets to save_metadata)
StageOrder ==
    <<"load", "dates", "transit", "risk", "text", "encode", "scale", "drop",
      "targets", "final", "save_regression", "save_classification",
      "save_metadata", "done">>

\* a step of the pipeline ends it on an exception or moves it to the next position
StepInOrder ==
    \/ ppc' = "failed"
    \/ \E k \in 1..(Len(StageOrder) - 1) : ppc = StageOrder[k] /\ ppc' = StageOrder[k + 1]

\* the derived features, wherever their columns are still held unscaled and
\* unencoded, are the functions of the cells of the input file
DerivedFromRaw ==
    \A i \in 1..Len(df.rows) :
        LET raw == input_csv.rows[i]
            r == df.rows[i]
        IN  /\ ppc \in {"risk", "text", "encode", "scale"} =>
                /\ r["Planned_Transit_Days"] =
                     dt_days(to_datetime(raw["Estimated_Arrival_Date"]), to_datetime(raw["Shipment_Date"]))
                /\ r["Actual_Transit_Days"] =
                     dt_days(to_datetime(raw["Actual_Arrival_Date"]), to_datetime(raw["Shipment_Date"]))
            /\ ppc \in {"risk", "text", "encode", "scale", "drop", "targets", "final"} =>
                r["Arrival_Delay_Days"] =
                     dt_days(to_datetime(raw["Actual_Arrival_Date"]), to_datetime(raw["Estimated_Arrival_Date"]))
            /\ ppc \in {"text", "encode", "scale"} =>
                r["Compliance_Risk_Score"] =
                     Compliance_Risk_Score(raw["Compliance_Score"], raw["Prior_Offense_Count"])
            /\ ppc \in {"text", "encode"} =>
                r["Route_Risk_Level"] = Route_Risk_Level(raw["Route_Risk_Index"])
            \* these two outlive the encoding of Document_Status and the
            \* scaling of Prior_Offense_Count
            /\ ppc \in {"text", "encode", "scale", "drop", "targets", "final"} =>
                /\ r["Has_Prior_Offense"] = (IF raw["Prior_Offense_Count"] > 0 THEN 1 ELSE 0)
                /\ r["Document_Issue"] =
                     (IF raw["Document_Status"] \in {"Missing", "Error"} THEN 1 ELSE 0)

\* C17: every step of the pipeline moves it to the next position of the fixed
\* order load, temporal, risk, text, encoding, scaling, pruning, split/write
\* (or ends it on an exception), so no stage runs twice or out of turn; and
\* every derived feature is the function of the raw cells of the input file,
\* also after the columns it was derived from have been encoded or scaled.
C17_StagesInOrder == []DerivedFromRaw /\ [][StepInOrder]_vars

\* C17 witness: the scaler has run on a row whose Document_Status is by now a
\* code and whose Prior_Offense_Count is scaled, the derived flags in place
C17_Witness ==
    /\ ppc = "drop"
    /\ input_csv.rows[1]["Document_Status"] = "Error"
    /\ input_csv.rows[1]["Prior_Offense_Count"] = 1
    /\ df.rows[1]["Document_Status"] = 0
    /\ df.rows[1]["Document_Issue"] = 1
    /\ df.rows[1]["Has_Prior_Offense"] = 1

\* --------------------------------------------------------------------- C11

\* both runs of the encoder are over
BothEncoded ==
    col_kind = "categorical" /\ run_output[1] # <<>> /\ run_output[2] # <<>>

\* C11 (as stated): when the column ["A","B","A","C"] has been encoded in two
\* separate runs, the code of a value is not fixed across the runs: some
\* string has one code in the first run and another in the second.
C11_CodesNotFixed ==
    (BothEncoded /\ run_input = << <<"A", "B", "A", "C">>, <<"A", "B", "A", "C">> >>) =>
        \E i \in 1..4 : run_output[1][i] # run_output[2][i]

\* C11 (amended): the column ["A","B","A","C"] gets the codes 0, 1, 0, 2 in
\* every run, and two runs give a string the same code whenever their columns
\* hold the same set of distinct values, in whatever order and number.
C11_CodesFixedBySortedValues ==
    BothEncoded =>
        /\ \A r \in 1..2 :
               run_input[r] = <<"A", "B", "A", "C">> => run_output[r] = <<0, 1, 0, 2>>
        /\ Range(run_input[1]) = Range(run_input[2]) =>
               \A i \in 1..Len(run_input[1]) : \A j \in 1..Len(run_input[2]) :
                   run_input[1][i] = run_input[2][j] => run_output[1][i] = run_output[2][j]

\* C11 witness: both runs have encoded ["A","B","A","C"] as 0, 1, 0, 2
C11_Witness ==
    /\ BothEncoded
    /\ run_input = << <<"A", "B", "A", "C">>, <<"A", "B", "A", "C">> >>
    /\ run_output = << <<0, 1, 0, 2>>, <<0, 1, 0, 2>> >>

\* --------------------------------------------------------------------- C16

\* the positions of the cells of the scaled column that are not missing
PresentCells == {i \in 1..Len(run_output[1]) : run_output[1][i].d # np_nan}

\* the column has been scaled and its values were not all the same
ScaledNonDegenerate ==
    /\ col_kind = "numeric"
    /\ run_output[1] # <<>>
    /\ \E i, j \in 1..Len(run_input[1]) :
           /\ run_input[1][i] # np_nan
           /\ run_input[1][j] # np_nan
           /\ run_input[1][i] # run_input[1][j]

\* C16: the scaled values z = d * sqrt(n / q) of a column whose values are not
\* all the same share one positive factor sqrt(n / q), their sum is 0 (the
\* mean is 0) and the mean of their squares is 1 (the population variance,
\* and so the population standard deviation, is 1): with N values,
\* (sum of d * d * n / q) / N = 1.
C16_MeanZeroStdOne ==
    ScaledNonDegenerate =>
        LET z == run_output[1]
            N == Cardinality(PresentCells)
        IN  /\ \A i, j \in PresentCells : z[i].n = z[j].n /\ z[i].q = z[j].q
            /\ \A i \in PresentCells : z[i].n > 0 /\ z[i].q > 0
            /\ SumSeq([i \in 1..Len(z) |-> IF i \in PresentCells THEN z[i].d ELSE 0]) = 0
            /\ SumSeq([i \in 1..Len(z) |->
                          IF i \in PresentCells THEN z[i].d * z[i].d * z[i].n ELSE 0])
                   = N * z[CHOOSE i \in PresentCells : TRUE].q

\* C16 witness: the column 0, 1, 3 scaled: deviations -4, -1, 5 thirds, the
\* squares of the tripled deviations summing to 42
C16_Witness ==
    /\ col_kind = "numeric"
    /\ run_input[1] = <<0, 1, 3>>
    /\ run_output[1] = <<[d |-> -4, n |-> 3, q |-> 42], [d |-> -1, n |-> 3, q |-> 42],
                         [d |-> 5, n |-> 3, q |-> 42]>>

\* --------------------------------------------------------------------- C13

\* the records a loop takes from one response
Kept(resp) ==
    IF resp.kind \notin (IF scraper = "simple" THEN {"ok"} ELSE {"ok", "three"}) THEN <<>>
    ELSE CASE scraper = "simple" -> KeepSimple(Observations(resp))
           [] scraper = "port" -> KeepPort(Observations(resp))
           [] scraper = "customs" -> KeepCustoms(Observations(resp))

RECURSIVE Collected(_)
\* the records of the first k responses
Collected(k) == IF k = 0 THEN <<>> ELSE Collected(k - 1) \o Kept(responses[k])

\* C13 (as stated): in each of the three fetch loops, once a page request has
\* come back with a network or HTTP error the loop has ended, the function has
\* returned the records of the earlier pages, and no exception has left it.
C13_ErrorCaughtAtRequest ==
    (responses # <<>> /\ responses[Len(responses)].kind = "error") =>
        /\ fpc \in {"returned", "collapsed"}
        /\ ferror = ""
        /\ results = Collected(Len(responses) - 1)

\* --------------------------------------------------------------------- C18

\* the k-th response is one the loop reads no observations from: a failed
\* request, an HTTP error status, a body that is not JSON or has fewer than
\* two elements, a pair without observations; and, in the simple scraper,
\* a list of three
Unread(k) ==
    LET resp == responses[k]
    IN  \/ resp.kind \in {"error", "notjson", "short"}
        \/ resp.kind = "three" /\ scraper = "simple"
        \/ len(resp) = 0

\* the last page as the claim has it: fewer than 20000 observations, or the
\* page number >= the reported page count
Terminal(k) ==
    \/ Unread(k)
    \/ len(responses[k]) < 20000
    \/ requests[k] >= responses[k].pages

\* the last page by the loop's own test: the simple scraper compares the page
\* number with the reported page count, the port and customs scrapers
\* compare the number of observations with per_page
TerminalOwnTest(k) ==
    \/ Unread(k)
    \/ IF scraper = "simple" THEN requests[k] >= responses[k].pages
                             ELSE len(responses[k]) < 20000

C19_OnlyTargetCountriesKept ==
    scraper \in {"port", "customs"} =>
        \A k \in 1..Len(results) :
            /\ results[k].country_id \in {"AU", "BR", "CN", "DE", "IN", "JP", "ZA", "AE", "GB", "US"}
            /\ results[k].country_name = TargetName(results[k].country_id)

\* --------------------------------------------------------------------- C20

\* the positions of the fetched observations that have a year
Dated == {k \in 1..Len(results) : results[k].year # None}

\* C20: the result of _latest_by_country has an entry for exactly the country
\* ids that have an observation with a year, and the entry of a country holds
\* the greatest year among its observations, with the name and the value of
\* an observation of that year.
C20_LatestYearPerCountry ==
    fpc = "collapsed" =>
        /\ DOMAIN latest = {results[k].country_id : k \in Dated}
        /\ \A cid \in DOMAIN latest :
               LET mine == {k \in Dated : results[k].country_id = cid}
               IN  /\ \A k \in mine : results[k].year[1] <= latest[cid].year
                   /\ \E k \in mine :
                          /\ results[k].year[1] = latest[cid].year
                          /\ results[k].value = latest[cid].value
                          /\ results[k].country_name = latest[cid].country_name

\* C20 witness: India fetched with 2022 on the first page and with 2018, 2022
\* and no year on the second; its entry is the first 2022 observation
C20_Witness ==
    /\ fpc = "collapsed"
    /\ Len(results) = 4
    /\ results[2].year = <<2018>>
    /\ results[4].year = <<>>
    /\ DOMAIN latest = {"IN"}
    /\ latest["IN"] = [country_name |-> "India", year |-> 2022, value |-> 340]

\* ------------------------------------------------------------------ C21

\* how many times a column name occurs in a header line
Occurrences(header, name) == Cardinality({i \in DOMAIN header : header[i] = name})

\* every run of enrich_dataset started so far has returned, and one has
AllRunsSucceeded == pc = "done" /\ completed = runs /\ runs >= 1

\* C21: after any number of successful runs of enrich_dataset on the same
\* files, the backup file still holds the original un-enriched dataset and the
\* header of the primary file names each of the 16 LPI columns exactly once.
C21_BackupKeepsOriginal ==
    AllRunsSucceeded =>
        /\ backup_file = original
        /\ \A i \in 1..Len(lpi_columns) :
               Occurrences(raw_file.header, lpi_columns[i]) = 1

\* what the code does instead: the backup holds the primary file as the last
\* run found it, and every run appends the 16 names to the header once more
C21_BackupIsLastInput ==
    AllRunsSucceeded =>
        /\ backup_file = pre_raw
        /\ \A i \in 1..Len(lpi_columns) :
               Occurrences(raw_file.header, lpi_columns[i]) = completed
        /\ completed = 1 => backup_file = original
        /\ completed > 1 => backup_file # original

\* a second successful run has returned
C21_Witness ==
    /\ AllRunsSucceeded
    /\ completed = 2
    /\ backup_file.header = RawHeader \o lpi_columns
    /\ Occurrences(raw_file.header, "Origin_LPI_Overall") = 2

\* ------------------------------------------------------------------ C22

\* the columns the metadata document lists as features
ListedFeatures ==
    Range(metadata_file.content.numeric_features)
        \cup Range(metadata_file.content.categorical_features)

\* the columns the metadata document names as targets
ListedTargets ==
    {metadata_file.content.regression_target,
     metadata_file.content.classification_target}

\* C22: every column named in the metadata document's numeric_features and
\* categorical_features lists is a feature column present in both emitted
\* tables, and neither list names a target column.
C22_ListedFeaturesAreFeatures ==
    (ppc = "done" /\ metadata_file.exists) =>
        /\ ListedFeatures \subseteq ColumnSet(X)
        /\ ListedFeatures \subseteq Range(regression_file.columns)
        /\ ListedFeatures \subseteq Range(classification_file.columns)
        /\ ListedFeatures \cap ListedTargets = {}

\* what the code does instead: categorical_features names the classification
\* target Route_Risk_Level, which is no column of X or of the regression
\* table; every other listed column is a feature in both tables
C22_AllButRiskLevelAreFeatures ==
    (ppc = "done" /\ metadata_file.exists) =>
        /\ ListedFeatures \cap ListedTargets = {TARGET_RISK}
        /\ TARGET_RISK \notin ColumnSet(X)
        /\ TARGET_RISK \notin Range(regression_file.columns)
        /\ ListedFeatures \ {TARGET_RISK} \subseteq ColumnSet(X)
        /\ ListedFeatures \ {TARGET_RISK} \subseteq Range(regression_file.columns)
        /\ ListedFeatures \ {TARGET_RISK} \subseteq Range(classification_file.columns)

\* the pipeline has written its two tables and the metadata document
C22_Witness ==
    /\ ppc = "done"
    /\ metadata_file.exists
    /\ regression_file.exists
    /\ classification_file.exists
    /\ "Route_Risk_Level" \in Range(metadata_file.content.categorical_features)

\* ------------------------------------------------------------------ C23

\* the column of the combined file that holds the j-th indicator
IndicatorColumn(j) == LPI_INDICATORS[j][2]

\* the j-th indicator value of a row of the combined file was observed in
\* the year the row records, if the row has such a value
ObservedInRowYear(row, j) ==
    row[IndicatorColumn(j)] # "" =>
        /\ row.country_id \in DOMAIN latests[j]
        /\ FloatStr(latests[j][row.country_id].value) = row[IndicatorColumn(j)]
        /\ IntStr(latests[j][row.country_id].year) = row.year

\* the row passes the filter of load_lpi_data
Admitted(row) == row.year = TargetYear /\ row.country_name \in TargetCountries

\* C23: in every row of the combined LPI file written by
\* fetch_lpi_data_simple, each of the six indicator values was observed in
\* the year recorded in that row's year field, so the year-2022 filter of
\* load_lpi_data only admits values that are from 2022.
C23_ValuesFromRecordedYear ==
    out_file.exists =>
        \A i \in 1..Len(out_file.rows) : \A j \in 1..Len(LPI_INDICATORS) :
            LET row == out_file.rows[i]
            IN  /\ ObservedInRowYear(row, j)
                /\ (Admitted(row) /\ row[IndicatorColumn(j)] # "") =>
                       latests[j][row.country_id].year = 2022

\* the indicators that have an observation of the country, in loop order
IndicatorsWith(cid) ==
    {j \in 1..Len(LPI_INDICATORS) : cid \in DOMAIN latests[j]}

\* what the code does instead: a row records the year of the first indicator
\* that has the country, and each cell holds the latest value of its
\* indicator, of whatever year
C23_YearOfFirstIndicator ==
    out_file.exists =>
        /\ {out_file.rows[i].country_id : i \in 1..Len(out_file.rows)}
               = UNION {DOMAIN latests[j] : j \in 1..Len(LPI_INDICATORS)}
        /\ \A i \in 1..Len(out_file.rows) :
               LET row == out_file.rows[i]
                   cid == row.country_id
                   first == CHOOSE j \in IndicatorsWith(cid) :
                               \A k \in IndicatorsWith(cid) : j <= k
               IN  /\ row.year = IntStr(latests[first][cid].year)
                   /\ \A j \in 1..Len(LPI_INDICATORS) :
                          row[IndicatorColumn(j)] =
                              IF j \in IndicatorsWith(cid)
                              THEN FloatStr(latests[j][cid].value) ELSE ""

\* the file is written with India's overall index of 2022 and customs index
\* of 2018 in one row of year 2022, and load_lpi_data admits the 2018 value
C23_Witness ==
    /\ out_file.exists
    /\ Len(out_file.rows) = 1
    /\ "IN" \in DOMAIN latests[1] \cap DOMAIN latests[2]
    /\ latests[1]["IN"].year = 2022
    /\ latests[2]["IN"].year = 2018
    /\ out_file.rows[1].year = "2022"
    /\ out_file.rows[1].LPI_Customs = "3.0"
    /\ "India" \in DOMAIN load_lpi_data(out_file)
    /\ load_lpi_data(out_file)["India"]["LPI_Customs"] = Some(300)

====
